---- MODULE Spec2Model ----
(***************************************************************************)
(* SpoofGuard: a model of the content script (src/content/content.js), of  *)
(* the background service worker (src/unnamed/part_000) and of the Gmail   *)
(* API client (src/background/gmail-api.js).                               *)
(*                                                                         *)
(* JavaScript strings are TLA+ strings; TLC evaluates Len, SubSeq and \o   *)
(* on them, so String.includes, toLowerCase, indexOf and the regular       *)
(* expressions of the source are computed character by character.          *)
(***************************************************************************)
EXTENDS Integers, Sequences, FiniteSets, Bags, TLC

VARIABLES
    view,          \* the page: window.location.href and the document
    currentEmail,  \* SpoofGuardContent.currentEmail
    realTime,      \* SpoofGuardContent.settings.realTimeMonitoring
    observers,     \* length of SpoofGuardContent.observers
    monitors,      \* live urlObserver/contentObserver/periodicCheck triples
    lastUrl,       \* SpoofGuardContent.lastUrl
    timers,        \* pending setTimeout callbacks of the content script
    runs,          \* extractGmailHeadersFromDOM calls suspended at their await
    waiters,       \* pending waitForCurrentEmail promises: inside the wait, or past it
    lastResponse,  \* what the last reply to GET_CURRENT_EMAIL carried
    evidence,      \* the input of the function under study: the evidence handed to
                   \* one resolver run (SpecResolve), a raw status token
                   \* (SpecNormalize), the DNS answers of a validation (SpecValidate)
    outcome,       \* what the function returned for it
    mail,          \* headers and DNS answers given to the validator (SpecValidate)
    validation,    \* what validateEmailHeaders returned (SpecValidate)
    worker         \* the service worker's clock and its dnsCache (SpecDns)

vars == <<view, currentEmail, realTime, observers, monitors, lastUrl, timers,
          runs, waiters, lastResponse, evidence, outcome, mail, validation, worker>>

\* JavaScript null
NULL == [null |-> TRUE]

\* new Map() (part_000 line 12) and the clock at the start of the worker
NoWorker == [now |-> 0, cache |-> [k \in {} |-> NULL]]

(***************************************************************************)
(* Strings                                                                 *)
(***************************************************************************)
Char(s, i) == SubSeq(s, i, i)

\* String.prototype.includes
Includes(s, sub) ==
    \E i \in 1..(Len(s) - Len(sub) + 1) : SubSeq(s, i, i + Len(sub) - 1) = sub

\* String.prototype.indexOf, 1-based; 0 when absent
IndexOf(s, sub) ==
    IF Includes(s, sub)
    THEN CHOOSE i \in 1..(Len(s) - Len(sub) + 1) :
            /\ SubSeq(s, i, i + Len(sub) - 1) = sub
            /\ \A j \in 1..(i - 1) : SubSeq(s, j, j + Len(sub) - 1) # sub
    ELSE 0

UpperAlpha == "ABCDEFGHIJKLMNOPQRSTUVWXYZ"
LowerAlpha == "abcdefghijklmnopqrstuvwxyz"

LowerChar(c) ==
    IF Includes(UpperAlpha, c) THEN Char(LowerAlpha, IndexOf(UpperAlpha, c)) ELSE c

ToLowerCase(s) ==
    LET lower[i \in 0..Len(s)] ==
            IF i = 0 THEN "" ELSE lower[i - 1] \o LowerChar(Char(s, i))
    IN  lower[Len(s)]

Least(S) == CHOOSE i \in S : \A j \in S : i <= j
Greatest(S) == CHOOSE i \in S : \A j \in S : i >= j

IsSpace(c) == c \in {" ", "\t", "\n", "\r"}

\* String.prototype.trim
Trim(s) ==
    LET inked == {i \in 1..Len(s) : ~IsSpace(Char(s, i))}
    IN  IF inked = {} THEN "" ELSE SubSeq(s, Least(inked), Greatest(inked))

\* the longest prefix of s none of whose characters is in stop: a [^...]+ group
TakeUntil(s, stop) ==
    LET stops == {i \in 1..Len(s) : Char(s, i) \in stop}
    IN  IF stops = {} THEN s ELSE SubSeq(s, 1, Least(stops) - 1)

\* the capture of /key([^stop]+)/ at or after position from; "" when no match
MatchFrom(s, key, stop, from) ==
    LET hits == {p \in from..(Len(s) - Len(key) + 1) :
                    /\ SubSeq(s, p, p + Len(key) - 1) = key
                    /\ TakeUntil(SubSeq(s, p + Len(key), Len(s)), stop) # ""}
    IN  IF hits = {} THEN ""
        ELSE TakeUntil(SubSeq(s, Least(hits) + Len(key), Len(s)), stop)

MatchAfter(s, key, stop) == MatchFrom(s, key, stop, 1)

(***************************************************************************)
(* Content script: status normalisation and scoring                        *)
(***************************************************************************)
\* the canonical statuses of a check
AuthStatus ==
    {"pass", "fail", "none", "neutral", "softfail", "temperror", "permerror",
     "present", "unknown"}

\* a check value as the content script meets it: an object {status, details},
\* a bare string, or undefined
Obj(status, details) == [shape |-> "obj", status |-> status, details |-> details]
Str(status) == [shape |-> "str", status |-> status, details |-> ""]
Undef == [shape |-> "undef", status |-> "", details |-> ""]

\* the switch of SpoofGuardContent.normalizeAuthStatus on the whole trimmed token
ContentStatusSwitch(normalized) ==
    CASE normalized \in {"pass", "passed", "ok", "success"} -> "pass"
      [] normalized \in {"fail", "failed", "failure", "error"} -> "fail"
      [] normalized \in {"none", "absent", "missing"} -> "none"
      [] normalized \in {"neutral", "softfail", "temperror", "permerror"} -> normalized
      [] normalized = "suspicious" -> "fail"
      [] normalized \in {"present", "found"} -> "present"
      [] OTHER -> "unknown"

\* SpoofGuardContent.normalizeAuthStatus
ContentNormalizeAuthStatus(status) ==
    IF status = "" THEN "unknown" ELSE ContentStatusSwitch(Trim(ToLowerCase(status)))

\* SpoofGuardContent.extractDomain: /@([^>\s]+)/, lower-cased; "" stands for null
ExtractDomain(email) ==
    IF email = "" THEN ""
    ELSE ToLowerCase(MatchAfter(email, "@", {">", " ", "\t", "\n", "\r"}))

IsKnownEmailProvider(domain) == domain \in {"gmail.com", "google.com"}

WeightSPF == 30
WeightDKIM == 35
WeightDMARC == 35
AuthResultsBonus == 10
UnknownProviderPenalty == 20
SpamPenalty == 30

\* the switch of calculateSecurityScore with 'none' sent to the default branch
StatusTenthsNoneAsDefault(status, weight) ==
    CASE status = "pass" -> weight * 10
      [] status \in {"softfail", "neutral"} -> weight * 5
      [] status = "fail" -> 0
      [] OTHER -> weight * 2

\* points of one check, in tenths of a point (weights[auth] * 0.5 and * 0.2)
StatusTenths(status, weight) ==
    CASE status = "pass" -> weight * 10
      [] status \in {"softfail", "neutral"} -> weight * 5
      [] status = "none" -> 0
      [] status = "present" -> weight * 2
      [] status = "fail" -> 0
      [] OTHER -> weight * 2

\* Math.round of a value given in tenths
RoundTenths(t) == (t + 5) \div 10

Max(a, b) == IF a >= b THEN a ELSE b
Min(a, b) == IF a <= b THEN a ELSE b

\* SpoofGuardContent.calculateSecurityScore
CalculateSecurityScore(spf, dkim, dmarc, hasAuthResults, isKnownProvider, isInSpamFolder) ==
    LET mech == StatusTenths(spf, WeightSPF) + StatusTenths(dkim, WeightDKIM)
                + StatusTenths(dmarc, WeightDMARC)
        bonus == IF hasAuthResults THEN AuthResultsBonus * 10 ELSE 0
        failedAuths == Cardinality({i \in 1..3 :
                          <<spf, dkim, dmarc>>[i] \in {"fail", "unknown"}})
        provider == IF ~isKnownProvider /\ failedAuths >= 2
                    THEN UnknownProviderPenalty * 10 ELSE 0
        spam == IF isInSpamFolder THEN SpamPenalty * 10 ELSE 0
    IN  Max(0, Min(100, RoundTenths(mech + bonus - provider - spam)))

LowRiskScore == 80
MediumRiskScore == 50

\* SpoofGuardContent.determineRiskLevel
DetermineRiskLevel(score) ==
    IF score >= LowRiskScore THEN "low"
    ELSE IF score >= MediumRiskScore THEN "medium"
    ELSE "high"

(***************************************************************************)
(* Content script: evidence from the page                                  *)
(*                                                                         *)
(* The document is a sequence of elements in the order the extractors      *)
(* visit them.  An element carries the text the extractors combine from    *)
(* its attributes and content, and says which selector lists match it:     *)
(*   gd    the authSelectors of extractAuthFromGmailData                   *)
(*   src   '[data-legacy-thread-id], [data-message-id], .ii.gt .im'        *)
(*   dom   the authSelectors of extractAuthFromDOM                         *)
(*   badge the securitySelectors of extractAuthFromDOM                     *)
(***************************************************************************)
Element(text, gd, src, dom, badge) ==
    [text |-> text, gd |-> gd, src |-> src, dom |-> dom, badge |-> badge]

Separators == {"=", ": ", " "}

HasPattern(lowerText, authType, words) ==
    \E w \in words : \E sep \in Separators : Includes(lowerText, authType \o sep \o w)

\* the pattern lists of SpoofGuardContent.extractAuthStatus, tried in order
StatusOfPatterns(lowerText, authType) ==
    IF HasPattern(lowerText, authType, {"pass", "passed", "ok", "success", "valid", "verified"})
    THEN "pass"
    ELSE IF HasPattern(lowerText, authType, {"fail", "failed", "invalid", "error", "reject", "rejected"})
    THEN "fail"
    ELSE IF HasPattern(lowerText, authType, {"none", "null", "missing", "absent"})
    THEN "none"
    ELSE IF HasPattern(lowerText, authType, {"neutral", "unknown"})
    THEN "neutral"
    ELSE IF HasPattern(lowerText, authType, {"softfail", "soft-fail", "warning"})
    THEN "softfail"
    ELSE IF Includes(lowerText, authType) THEN "present"
    ELSE "unknown"

\* SpoofGuardContent.extractAuthStatus
ExtractAuthStatus(text, authType) == StatusOfPatterns(ToLowerCase(text), authType)

\* authInfo of the extractors: "" is a key that was never set
EmptyAuthInfo ==
    [spf |-> "", dkim |-> "", dmarc |-> "", gmail_verified |-> FALSE, general |-> FALSE,
     warning |-> FALSE, positive_signal |-> FALSE, source_verified |-> FALSE]

HasKeys(info) ==
    \/ info.spf # "" \/ info.dkim # "" \/ info.dmarc # ""
    \/ info.gmail_verified \/ info.general \/ info.warning
    \/ info.positive_signal \/ info.source_verified

FirstStatus(old, combinedText, authType) ==
    IF Includes(combinedText, authType) /\ old = ""
    THEN ExtractAuthStatus(combinedText, authType) ELSE old

\* the forEach body of extractAuthFromGmailData (lines 879-928) on the
\* lower-cased text of one element
GmailDataMarks(info, combinedText) ==
    [spf |-> FirstStatus(info.spf, combinedText, "spf"),
     dkim |-> FirstStatus(info.dkim, combinedText, "dkim"),
     dmarc |-> FirstStatus(info.dmarc, combinedText, "dmarc"),
     gmail_verified |-> info.gmail_verified
        \/ Includes(combinedText, "mailed-by") \/ Includes(combinedText, "signed-by"),
     general |-> info.general
        \/ Includes(combinedText, "authenticated") \/ Includes(combinedText, "verified"),
     warning |-> info.warning
        \/ Includes(combinedText, "warning") \/ Includes(combinedText, "suspicious")
        \/ Includes(combinedText, "phishing"),
     positive_signal |-> info.positive_signal
        \/ Includes(combinedText, "secure") \/ Includes(combinedText, "trusted")
        \/ Includes(combinedText, "verified sender"),
     source_verified |-> info.source_verified]

\* the forEach body on one element: combinedText is its lower-cased text
GmailDataStep(info, el) == GmailDataMarks(info, ToLowerCase(el.text))

GmailDataScan(doc, info) ==
    LET scan[i \in 0..Len(doc)] ==
            IF i = 0 THEN info
            ELSE IF doc[i].gd THEN GmailDataStep(scan[i - 1], doc[i]) ELSE scan[i - 1]
    IN  scan[Len(doc)]

\* lines 932-938: the message source indicators
SourceVerified(doc) ==
    \E i \in 1..Len(doc) :
        doc[i].src /\ (Includes(doc[i].text, "mailed-by") \/ Includes(doc[i].text, "signed-by"))

GmailDataInfo(doc) ==
    [GmailDataScan(doc, EmptyAuthInfo) EXCEPT !.source_verified = SourceVerified(doc)]

UnknownResults ==
    [spf |-> Obj("unknown", "SPF authentication: unknown"),
     dkim |-> Obj("unknown", "DKIM signature: unknown"),
     dmarc |-> Obj("unknown", "DMARC policy: unknown")]

\* results.x.status === 'unknown': a bare string has no status property
IsUnknownObj(v) == v.shape = "obj" /\ v.status = "unknown"

Uplift(v) ==
    IF IsUnknownObj(v) THEN Obj("pass", "Email appears authenticated by Gmail") ELSE v

NoResults == [spf |-> Undef, dkim |-> Undef, dmarc |-> Undef]

\* lines 940-980 of extractAuthFromGmailData: the results it makes of authInfo;
\* found = FALSE is the null it returns.  The class body is strict-mode code:
\* results.spf.status = 'suspicious' on a bare string throws a TypeError, which
\* the catch of line 977 turns into null.
GmailDataResults(authInfo) ==
    LET base == [spf |-> IF authInfo.spf # "" THEN Str(authInfo.spf) ELSE UnknownResults.spf,
                 dkim |-> IF authInfo.dkim # "" THEN Str(authInfo.dkim) ELSE UnknownResults.dkim,
                 dmarc |-> IF authInfo.dmarc # "" THEN Str(authInfo.dmarc) ELSE UnknownResults.dmarc]
        lifted == IF \/ authInfo.general \/ authInfo.source_verified
                     \/ authInfo.gmail_verified \/ authInfo.positive_signal
                  THEN [spf |-> Uplift(base.spf), dkim |-> Uplift(base.dkim),
                        dmarc |-> Uplift(base.dmarc)]
                  ELSE base
        throws == \E k \in {"spf", "dkim", "dmarc"} : lifted[k].shape = "str"
        warned == [spf |-> Obj("suspicious", "Security warning detected"),
                   dkim |-> Obj("suspicious", "Security warning detected"),
                   dmarc |-> Obj("suspicious", "Security warning detected")]
    IN  IF ~HasKeys(authInfo) THEN [found |-> FALSE, results |-> NoResults]
        ELSE IF ~authInfo.warning THEN [found |-> TRUE, results |-> lifted]
        ELSE IF throws THEN [found |-> FALSE, results |-> NoResults]
        ELSE [found |-> TRUE, results |-> warned]

\* SpoofGuardContent.extractAuthFromGmailData
ExtractAuthFromGmailData(doc) == GmailDataResults(GmailDataInfo(doc))

\* the forEach body of extractAuthFromDOM (lines 1011-1040) on the lower-cased
\* text of one element
DomMarks(info, combinedText) ==
    [info EXCEPT
        !.spf = FirstStatus(info.spf, combinedText, "spf"),
        !.dkim = FirstStatus(info.dkim, combinedText, "dkim"),
        !.dmarc = FirstStatus(info.dmarc, combinedText, "dmarc"),
        !.general = info.general
            \/ Includes(combinedText, "authenticated") \/ Includes(combinedText, "verified")
            \/ Includes(combinedText, "signed")]

\* the forEach body on one element
DomStep(info, el) == DomMarks(info, ToLowerCase(el.text))

DomScan(doc, info) ==
    LET scan[i \in 0..Len(doc)] ==
            IF i = 0 THEN info
            ELSE IF doc[i].dom THEN DomStep(scan[i - 1], doc[i]) ELSE scan[i - 1]
    IN  scan[Len(doc)]

\* badgeInfo: the texts of the security badges, joined by a space
BadgeText(doc) ==
    LET joined[i \in 0..Len(doc)] ==
            IF i = 0 THEN ""
            ELSE LET before == joined[i - 1] IN
                 IF doc[i].badge /\ Trim(doc[i].text) # ""
                 THEN (IF before = "" THEN doc[i].text ELSE before \o " " \o doc[i].text)
                 ELSE before
    IN  joined[Len(doc)]

\* the mechanisms that parseSecurityBadgeInfo reads from the lower-cased text
BadgeMechanisms(lowerInfo) ==
    [EmptyAuthInfo EXCEPT
        !.spf = IF Includes(lowerInfo, "spf") THEN ExtractAuthStatus(lowerInfo, "spf") ELSE "",
        !.dkim = IF Includes(lowerInfo, "dkim") THEN ExtractAuthStatus(lowerInfo, "dkim") ELSE "",
        !.dmarc = IF Includes(lowerInfo, "dmarc") THEN ExtractAuthStatus(lowerInfo, "dmarc") ELSE ""]

\* the general signal of parseSecurityBadgeInfo, set when no mechanism was read
BadgeGeneral(lowerInfo, mech) ==
    IF ~HasKeys(mech)
       /\ (Includes(lowerInfo, "authenticated") \/ Includes(lowerInfo, "verified"))
    THEN [mech EXCEPT !.general = TRUE]
    ELSE mech

\* parseSecurityBadgeInfo on the lower-cased text
BadgeInfoOf(lowerInfo) == BadgeGeneral(lowerInfo, BadgeMechanisms(lowerInfo))

\* SpoofGuardContent.parseSecurityBadgeInfo; an authInfo without keys is its null
ParseSecurityBadgeInfo(badgeInfo) == BadgeInfoOf(ToLowerCase(badgeInfo))

StrOrUndef(s) == IF s # "" THEN Str(s) ELSE Undef

\* the returns of extractAuthFromDOM (lines 1042-1094): it returns the authInfo
\* itself, whose spf, dkim and dmarc keys are bare strings or missing
DomResults(doc, authInfo, badgeInfo, parsedInfo) ==
    LET AsResults(info) == [spf |-> StrOrUndef(info.spf), dkim |-> StrOrUndef(info.dkim),
                            dmarc |-> StrOrUndef(info.dmarc)]
    IN  IF (\E i \in 1..Len(doc) : doc[i].dom) /\ HasKeys(authInfo)
        THEN [found |-> TRUE, results |-> AsResults(authInfo)]
        ELSE IF (\E i \in 1..Len(doc) : doc[i].badge) /\ badgeInfo # "" /\ HasKeys(parsedInfo)
        THEN [found |-> TRUE, results |-> AsResults(parsedInfo)]
        ELSE [found |-> FALSE, results |-> NoResults]

\* line 1070: parsedInfo = this.parseSecurityBadgeInfo(badgeInfo)
DomBadgeResults(doc, authInfo, badgeInfo) ==
    DomResults(doc, authInfo, badgeInfo, ParseSecurityBadgeInfo(badgeInfo))

\* SpoofGuardContent.extractAuthFromDOM
ExtractAuthFromDOM(doc) == DomBadgeResults(doc, DomScan(doc, EmptyAuthInfo), BadgeText(doc))

MaxDocLen == 2     \* elements of the page that carry security text

ElementPool ==
    {Element("spf=pass", TRUE, FALSE, FALSE, FALSE),
     Element("dkim=fail", FALSE, FALSE, TRUE, FALSE),
     Element("signed-by: google.com", TRUE, TRUE, FALSE, FALSE),
     Element("phishing warning", TRUE, FALSE, FALSE, FALSE),
     Element("verified", FALSE, FALSE, FALSE, TRUE),
     Element("spf=softfail dmarc=none", TRUE, FALSE, TRUE, FALSE)}

Docs == UNION {[1..n -> ElementPool] : n \in 0..MaxDocLen}

\* what the two extractors return on each page, computed once
DocEvidence ==
    [d \in Docs |-> [data |-> ExtractAuthFromGmailData(d), page |-> ExtractAuthFromDOM(d)]]

\* !authResults || (spf.status === 'unknown' && dkim.status === 'unknown' &&
\* dmarc.status === 'unknown'), left to right: "throw" is the TypeError of reading
\* .status of a missing key
NoEvidence(r) ==
    IF ~r.found THEN "true"
    ELSE IF r.results.spf.shape = "undef" THEN "throw"
    ELSE IF ~IsUnknownObj(r.results.spf) THEN "false"
    ELSE IF r.results.dkim.shape = "undef" THEN "throw"
    ELSE IF ~IsUnknownObj(r.results.dkim) THEN "false"
    ELSE IF r.results.dmarc.shape = "undef" THEN "throw"
    ELSE IF ~IsUnknownObj(r.results.dmarc) THEN "false"
    ELSE "true"

SuspiciousResults ==
    [spf |-> Obj("suspicious", "Email found in spam folder or flagged as dangerous"),
     dkim |-> Obj("suspicious", "Email found in spam folder or flagged as dangerous"),
     dmarc |-> Obj("suspicious", "Email found in spam folder or flagged as dangerous")]

\* the reply to GMAIL_API_HEADERS as getGmailHeadersViaAPI hands it on:
\* ok = FALSE is a rejected promise (runtime error or response.error)
ApiFailure == [ok |-> FALSE, sender |-> "", authentication |-> NoResults]

\* lines 623-684 of getGmailHeadersFromDOM: the checks it selects from the reply
\* of the provider API and from what the two extractors found on the page
SelectAuthResults(api, found, isInSpamFolder) ==
    LET second == IF NoEvidence(found.data) = "true" THEN found.page ELSE found.data
    IN  IF api.ok THEN [thrown |-> FALSE, authResults |-> api.authentication]
        ELSE IF NoEvidence(second) = "throw" THEN [thrown |-> TRUE, authResults |-> NoResults]
        ELSE IF NoEvidence(second) = "false" THEN [thrown |-> FALSE, authResults |-> second.results]
        ELSE IF isInSpamFolder THEN [thrown |-> FALSE, authResults |-> SuspiciousResults]
        ELSE [thrown |-> FALSE, authResults |-> UnknownResults]

\* SpoofGuardContent.getGmailHeadersFromDOM after the reply of the provider API:
\* thrown = TRUE is the rejection of its promise
GetGmailHeadersFromDOM(api, doc, isInSpamFolder) ==
    SelectAuthResults(api, DocEvidence[doc], isInSpamFolder)

(***************************************************************************)
(* Content script: simulateHeaderAnalysis and processEmailData             *)
(***************************************************************************)
\* typeof raw === 'string' ? raw : (raw && raw.status) || 'unknown'
RawStatus(v) ==
    IF v.shape = "str" THEN v.status
    ELSE IF v.shape = "obj" /\ v.status # "" THEN v.status
    ELSE "unknown"

\* (authResults.x && authResults.x.details) ? authResults.x.details : fallback
DetailsOf(v, fallback) ==
    IF v.shape = "obj" /\ v.details # "" THEN v.details ELSE fallback

\* the outcomes of the three Math.random() draws of lines 1280-1282
RandomDraws == [spf : {"pass", "fail"}, dkim : {"pass", "fail"}, dmarc : {"pass", "fail"}]

\* no draw is made when emailData.authResults is an object
NoDraws == [spf |-> "", dkim |-> "", dmarc |-> ""]

\* lines 1256-1288 of simulateHeaderAnalysis: the status of one check
StatusOfCheck(hasAuth, raw, isKnownProvider, drawn) ==
    IF hasAuth THEN ContentNormalizeAuthStatus(RawStatus(raw))
    ELSE IF ~isKnownProvider THEN drawn ELSE "pass"

\* one entry of the analysis object (lines 1291-1308)
CheckEntry(status, hasAuth, raw, label) ==
    [status |-> status,
     details |-> IF hasAuth THEN DetailsOf(raw, label \o status) ELSE label \o status]

\* the analysis object of simulateHeaderAnalysis (lines 1290-1318)
AnalysisOf(spfStatus, dkimStatus, dmarcStatus, domain, isKnownProvider, hasAuth, authResults, isInSpamFolder, score) ==
    [spf |-> CheckEntry(spfStatus, hasAuth, authResults.spf, "SPF authentication: "),
     dkim |-> CheckEntry(dkimStatus, hasAuth, authResults.dkim, "DKIM signature: "),
     dmarc |-> CheckEntry(dmarcStatus, hasAuth, authResults.dmarc, "DMARC policy: "),
     domain |-> domain,
     isKnownProvider |-> isKnownProvider,
     hasAuthResults |-> hasAuth,
     isInSpamFolder |-> isInSpamFolder,
     securityScore |-> score,
     riskLevel |-> DetermineRiskLevel(score)]

\* lines 1315-1316: the score of the three statuses
ScoredAnalysis(spfStatus, dkimStatus, dmarcStatus, domain, isKnownProvider, hasAuth, authResults, isInSpamFolder) ==
    AnalysisOf(spfStatus, dkimStatus, dmarcStatus, domain, isKnownProvider, hasAuth,
               authResults, isInSpamFolder,
               CalculateSecurityScore(spfStatus, dkimStatus, dmarcStatus,
                                      hasAuth, isKnownProvider, isInSpamFolder))

\* lines 1250-1288: the three statuses
AnalysisForDomain(domain, isKnownProvider, hasAuth, authResults, isInSpamFolder, rnd) ==
    ScoredAnalysis(StatusOfCheck(hasAuth, authResults.spf, isKnownProvider, rnd.spf),
                   StatusOfCheck(hasAuth, authResults.dkim, isKnownProvider, rnd.dkim),
                   StatusOfCheck(hasAuth, authResults.dmarc, isKnownProvider, rnd.dmarc),
                   domain, isKnownProvider, hasAuth, authResults, isInSpamFolder)

\* line 1236: isKnownProvider of the sender's domain
AnalysisForSender(domain, hasAuth, authResults, isInSpamFolder, rnd) ==
    AnalysisForDomain(domain, IsKnownEmailProvider(domain), hasAuth, authResults,
                      isInSpamFolder, rnd)

\* SpoofGuardContent.simulateHeaderAnalysis.  hasAuth says whether
\* emailData.authResults is an object; rnd is consulted only when it is not and
\* the sender's domain is no known provider.
SimulateHeaderAnalysis(sender, hasAuth, authResults, isInSpamFolder, rnd) ==
    AnalysisForSender(ExtractDomain(sender), hasAuth, authResults, isInSpamFolder, rnd)

\* the record that processEmailData stores in currentEmail, { ...emailData, ...analysis }
StoredEmail(provider, msg, sender, subject, headers, analysis) ==
    [provider |-> provider, msg |-> msg, sender |-> sender, subject |-> subject,
     headers |-> headers,
     spf |-> analysis.spf, dkim |-> analysis.dkim, dmarc |-> analysis.dmarc,
     domain |-> analysis.domain, isKnownProvider |-> analysis.isKnownProvider,
     hasAuthResults |-> analysis.hasAuthResults,
     isInSpamFolder |-> analysis.isInSpamFolder,
     securityScore |-> analysis.securityScore, riskLevel |-> analysis.riskLevel]

\* SpoofGuardContent.processEmailData
ProcessEmailData(provider, msg, sender, subject, headers, hasAuth, authResults, isInSpamFolder, rnd) ==
    StoredEmail(provider, msg, sender, subject, headers,
                SimulateHeaderAnalysis(sender, hasAuth, authResults, isInSpamFolder, rnd))

UnknownSender == "unknown@example.com"
NoSubject == "No Subject"

\* lines 576-605 of extractGmailHeadersFromDOM: what the run ends in, given what
\* getGmailHeadersFromDOM returned.
\* kind: "commit" (processEmailData ran), "skip" (line 600: no valid sender or
\* subject), "abort" (the catch of line 603).
EndOfDomRun(msg, senderName, senderEmail, subject, got, isInSpamFolder) ==
    IF got.thrown THEN [kind |-> "abort", email |-> NULL]
    ELSE IF senderEmail # UnknownSender \/ subject # NoSubject
    THEN [kind |-> "commit",
          email |-> ProcessEmailData("gmail", msg, senderName \o " <" \o senderEmail \o ">",
                                     subject, "dom", TRUE, got.authResults, isInSpamFolder,
                                     NoDraws)]
    ELSE [kind |-> "skip", email |-> NULL]

\* extractGmailHeadersFromDOM from line 574 on, for a run that found a
\* container, once the provider API has replied
FinishDomRun(msg, senderName, senderEmail, subject, api, doc, isInSpamFolder) ==
    EndOfDomRun(msg, senderName, senderEmail, subject,
                GetGmailHeadersFromDOM(api, doc, isInSpamFolder), isInSpamFolder)

\* extractGmailHeadersFromDOM, lines 462-492, for a run that found no
\* container: the provider API alone
FinishApiOnlyRun(msg, api, isInSpamFolder) ==
    IF api.ok /\ api.sender # ""
    THEN [kind |-> "commit",
          email |-> ProcessEmailData("gmail", msg, api.sender, NoSubject, "api", TRUE,
                                     api.authentication, isInSpamFolder, NoDraws)]
    ELSE [kind |-> "skip", email |-> NULL]

(***************************************************************************)
(* Background: the provider API client (gmail-api.js)                      *)
(*                                                                         *)
(* A message is the sequence of its header fields, [name, value], as the   *)
(* payload of messages.get lists them.  A header map gives the value of    *)
(* each name it knows, "" for a name that is missing.                      *)
(***************************************************************************)
HeaderNames ==
    {"from", "return-path", "subject", "authentication-results",
     "arc-authentication-results", "received-spf", "dkim-signature",
     "x-google-dkim-signature"}

Field(name, value) == [name |-> name, value |-> value]

NoHeaders == [n \in HeaderNames |-> ""]

\* GmailAPIClient.parseGmailAPIResponse, lines 505-513: headers[name.toLowerCase()]
\* = value, a later field replacing an earlier one
HeaderMap(fields) ==
    [n \in HeaderNames |->
        LET at == {i \in 1..Len(fields) : ToLowerCase(fields[i].name) = n}
        IN  IF at = {} THEN "" ELSE fields[Greatest(at)].value]

\* the capture of /key([^stop]+)/i in s; "" when there is no match
MatchAfterI(s, key, stop) ==
    LET low == ToLowerCase(s)
        hits == {p \in 1..(Len(s) - Len(key) + 1) :
                    /\ SubSeq(low, p, p + Len(key) - 1) = key
                    /\ TakeUntil(SubSeq(s, p + Len(key), Len(s)), stop) # ""}
    IN  IF hits = {} THEN ""
        ELSE TakeUntil(SubSeq(s, Least(hits) + Len(key), Len(s)), stop)

TokenStop == {";", " ", "\t", "\n", "\r"}

\* the tests of GmailAPIClient.normalizeAuthStatus: the first word the token
\* contains
FirstWordIn(normalizedStatus) ==
    IF Includes(normalizedStatus, "pass") THEN "pass"
    ELSE IF Includes(normalizedStatus, "fail") THEN "fail"
    ELSE IF Includes(normalizedStatus, "none") THEN "none"
    ELSE IF Includes(normalizedStatus, "neutral") THEN "neutral"
    ELSE IF Includes(normalizedStatus, "softfail") THEN "softfail"
    ELSE IF Includes(normalizedStatus, "temperror") THEN "temperror"
    ELSE IF Includes(normalizedStatus, "permerror") THEN "permerror"
    ELSE "unknown"

\* GmailAPIClient.normalizeAuthStatus
ApiNormalizeAuthStatus(status) == FirstWordIn(Trim(ToLowerCase(status)))

\* status: m ? this.normalizeAuthStatus(m[1]) : 'unknown'
StatusOfToken(statusRaw) ==
    IF statusRaw = "" THEN "unknown" ELSE ApiNormalizeAuthStatus(statusRaw)

\* parseSection of extractAuthenticationFromHeaders: the normalized status of
\* <name>=<token>
ParseSection(authHeader, name) ==
    StatusOfToken(MatchAfterI(authHeader, name \o "=", TokenStop))

\* lines 534-650: the three sections of the Authentication-Results header.
\* details is the join of the reason, smtp.mailfrom, client-ip, header.i,
\* header.from and policy tokens of the header; the header values drawn below
\* carry none of them, so that the join is the empty string whenever an
\* Authentication-Results header is present.
ParsedAuthHeader(authHeader) ==
    IF authHeader # ""
    THEN [spf |-> Obj(ParseSection(authHeader, "spf"), ""),
          dkim |-> Obj(ParseSection(authHeader, "dkim"), ""),
          dmarc |-> Obj(ParseSection(authHeader, "dmarc"), "")]
    ELSE [spf |-> Obj("unknown", "SPF not found in headers"),
          dkim |-> Obj("unknown", "DKIM not found in headers"),
          dmarc |-> Obj("unknown", "DMARC not found in headers")]

\* lines 652-671: the Received-SPF and DKIM-Signature fallbacks
HeaderFallbacks(headers, parsed, received) ==
    [spf |-> IF parsed.spf.status = "unknown" /\ received # ""
             THEN (IF Includes(received, "pass") THEN Obj("pass", "Received-SPF shows pass")
                   ELSE IF Includes(received, "fail") THEN Obj("fail", "Received-SPF shows fail")
                   ELSE parsed.spf)
             ELSE parsed.spf,
     dkim |-> IF /\ parsed.dkim.status = "unknown"
                 /\ (headers["dkim-signature"] # "" \/ headers["x-google-dkim-signature"] # "")
              THEN Obj("pass", "DKIM signature present")
              ELSE parsed.dkim,
     dmarc |-> parsed.dmarc]

\* GmailAPIClient.extractAuthenticationFromHeaders
ExtractAuthenticationFromHeaders(headers) ==
    HeaderFallbacks(headers,
                    ParsedAuthHeader(IF headers["authentication-results"] # ""
                                     THEN headers["authentication-results"]
                                     ELSE headers["arc-authentication-results"]),
                    ToLowerCase(headers["received-spf"]))

\* the successful reply to GMAIL_API_HEADERS for a message with these fields
\* (parseGmailAPIResponse, and getGmailHeaders of the service worker)
ApiReplyFor(fields) ==
    [ok |-> TRUE, sender |-> HeaderMap(fields)["from"],
     authentication |-> ExtractAuthenticationFromHeaders(HeaderMap(fields))]

(***************************************************************************)
(* Background: the service worker's header validation                      *)
(***************************************************************************)
\* String.prototype.split('\n')
Lines(text) ==
    LET breaks == {0, Len(text) + 1} \cup {i \in 1..Len(text) : Char(text, i) = "\n"}
        Start(k) == CHOOSE b \in breaks : Cardinality({c \in breaks : c < b}) = k - 1
    IN  [k \in 1..(Cardinality(breaks) - 1) |->
            SubSeq(text, Start(k) + 1, Least({c \in breaks : c > Start(k)}) - 1)]

\* SpoofGuardBackground.parseEmailHeaders on a string; st is the state of its
\* forEach: the map so far and the header being collected
ParseStep(st, line) ==
    IF Len(line) > 0 /\ IsSpace(Char(line, 1))
    THEN [st EXCEPT !.currentValue = @ \o " " \o Trim(line)]
    ELSE LET saved == IF st.currentHeader # "" /\ ToLowerCase(st.currentHeader) \in HeaderNames
                      THEN [st.parsed EXCEPT ![ToLowerCase(st.currentHeader)] =
                                                Trim(st.currentValue)]
                      ELSE st.parsed
             colonIndex == IndexOf(line, ":")
         IN  IF colonIndex > 1
             THEN [parsed |-> saved,
                   currentHeader |-> Trim(SubSeq(line, 1, colonIndex - 1)),
                   currentValue |-> Trim(SubSeq(line, colonIndex + 1, Len(line)))]
             ELSE [st EXCEPT !.parsed = saved]

\* SpoofGuardBackground.parseEmailHeaders: {} for anything but a string
ParseEmailHeaders(headers) ==
    IF ~headers.isString THEN NoHeaders
    ELSE LET lines == Lines(headers.text)
             scan[i \in 0..Len(lines)] ==
                 IF i = 0 THEN [parsed |-> NoHeaders, currentHeader |-> "", currentValue |-> ""]
                 ELSE LET before == scan[i - 1] IN ParseStep(before, lines[i])
             last == scan[Len(lines)]
         IN  IF last.currentHeader # "" /\ ToLowerCase(last.currentHeader) \in HeaderNames
             THEN [last.parsed EXCEPT ![ToLowerCase(last.currentHeader)] =
                                          Trim(last.currentValue)]
             ELSE last.parsed

\* SpoofGuardBackground.extractDomainFromHeaders; "" stands for null
ExtractDomainFromHeaders(headers) ==
    LET fromMatch == MatchAfter(headers["from"], "@", {">", " ", "\t", "\n", "\r"})
        returnPathMatch == MatchAfter(headers["return-path"], "@", {">", " ", "\t", "\n", "\r"})
    IN  IF fromMatch # "" THEN ToLowerCase(fromMatch)
        ELSE IF returnPathMatch # "" THEN ToLowerCase(returnPathMatch)
        ELSE ""

StartsWith(s, prefix) == Len(s) >= Len(prefix) /\ SubSeq(s, 1, Len(prefix)) = prefix

\* Array.prototype.find on the TXT records; "" stands for undefined
FindRecord(records, prefix) ==
    LET at == {i \in 1..Len(records) : StartsWith(records[i], prefix)}
    IN  IF at = {} THEN "" ELSE records[Least(at)]

\* SpoofGuardBackground.validateSPF
ValidateSPF(headers, spfRecords) ==
    LET spfRecord == FindRecord(spfRecords, "v=spf1")
        spfMatch == MatchAfterI(headers["authentication-results"], "spf=", TokenStop)
    IN  IF spfRecord = "" THEN [status |-> "none", details |-> "No SPF record found"]
        ELSE IF spfMatch # ""
        THEN [status |-> ToLowerCase(spfMatch), details |-> "SPF " \o ToLowerCase(spfMatch)]
        ELSE IF \/ Includes(spfRecord, "include:") \/ Includes(spfRecord, "a:")
                \/ Includes(spfRecord, "mx:")
        THEN [status |-> "pass", details |-> "SPF record exists with valid mechanisms"]
        ELSE [status |-> "neutral", details |-> "SPF record found but status unclear"]

\* SpoofGuardBackground.validateDKIM
ValidateDKIM(headers) ==
    LET dkimMatch == MatchAfterI(headers["authentication-results"], "dkim=", TokenStop)
    IN  IF headers["dkim-signature"] = ""
        THEN [status |-> "none", details |-> "No DKIM signature found"]
        ELSE IF dkimMatch # ""
        THEN [status |-> ToLowerCase(dkimMatch), details |-> "DKIM " \o ToLowerCase(dkimMatch)]
        ELSE [status |-> "pass", details |-> "DKIM signature present"]

\* SpoofGuardBackground.validateDMARC
ValidateDMARC(headers, dmarcRecords) ==
    LET dmarcRecord == FindRecord(dmarcRecords, "v=DMARC1")
        dmarcMatch == MatchAfterI(headers["authentication-results"], "dmarc=", TokenStop)
        policyMatch == MatchAfter(dmarcRecord, "p=", {";"})
        policy == IF policyMatch # "" THEN policyMatch ELSE "none"
    IN  IF dmarcRecord = "" THEN [status |-> "none", details |-> "No DMARC record found"]
        ELSE IF dmarcMatch # ""
        THEN [status |-> ToLowerCase(dmarcMatch), details |-> "DMARC " \o ToLowerCase(dmarcMatch)]
        ELSE [status |-> "pass", details |-> "DMARC policy: " \o policy]

BgPassTenths == 10
BgPartialTenths == 5
BgErrorTenths == 2

\* SpoofGuardBackground.calculateSecurityScore
BgCalculateSecurityScore(spf, dkim, dmarc) ==
    LET Points(status, weight) ==
            CASE status = "pass" -> weight * BgPassTenths
              [] status \in {"softfail", "neutral"} -> weight * BgPartialTenths
              [] status \in {"temperror", "permerror"} -> weight * BgErrorTenths
              [] OTHER -> 0
    IN  RoundTenths(Points(spf, WeightSPF) + Points(dkim, WeightDKIM)
                    + Points(dmarc, WeightDMARC))

\* SpoofGuardBackground.validateEmailHeaders, given the answers of the two DNS
\* lookups (performDNSLookup answers [] when the lookup fails)
ValidateEmailHeaders(headers, spfRecords, dmarcRecords) ==
    LET parsedHeaders == ParseEmailHeaders(headers)
        domain == ExtractDomainFromHeaders(parsedHeaders)
        spfValidation == ValidateSPF(parsedHeaders, spfRecords)
        dkimValidation == ValidateDKIM(parsedHeaders)
        dmarcValidation == ValidateDMARC(parsedHeaders, dmarcRecords)
        score == BgCalculateSecurityScore(spfValidation.status, dkimValidation.status,
                                          dmarcValidation.status)
    IN  IF domain = ""
        THEN [spf |-> [status |-> "none", details |-> "No domain found"],
              dkim |-> [status |-> "none", details |-> "No domain found"],
              dmarc |-> [status |-> "none", details |-> "No domain found"],
              domain |-> "", securityScore |-> 0, riskLevel |-> "high"]
        ELSE [spf |-> spfValidation, dkim |-> dkimValidation, dmarc |-> dmarcValidation,
              domain |-> domain, securityScore |-> score,
              riskLevel |-> DetermineRiskLevel(score)]

(***************************************************************************)
(* Inputs                                                                  *)
(***************************************************************************)
NMsg == 2          \* messages the viewer can open

\* what the sender and subject selectors of lines 503-564 find
Extracted ==
    {[name |-> "Alice", email |-> "alice@gmail.com", subject |-> "Hello"],
     [name |-> "Bob", email |-> "bob@evil.example", subject |-> "Invoice"],
     [name |-> "Unknown", email |-> UnknownSender, subject |-> NoSubject]}

\* the header fields of a message: a From, an Authentication-Results and a
\* DKIM-Signature field, each present or not
FromValues == {"", "a@corp.example", "Eve <eve@EVIL.example>"}
AuthResultsValues ==
    {"", "mx; spf=pass; dkim=pass; dmarc=pass", "mx; spf=none; dkim=pass; dmarc=fail",
     "mx; SPF=softfail", "mx; spf=bogus; dkim=policy; dmarc=bestguesspass"}
SignatureValues == {"", "v=1; a=rsa-sha256"}

FieldsOf(from, auth, sig) ==
    <<Field("Subject", "hi")>>
    \o (IF from # "" THEN <<Field("From", from)>> ELSE <<>>)
    \o (IF auth # "" THEN <<Field("Authentication-Results", auth)>> ELSE <<>>)
    \o (IF sig # "" THEN <<Field("DKIM-Signature", sig)>> ELSE <<>>)

HeaderFields ==
    {FieldsOf(from, auth, sig) :
        from \in FromValues, auth \in AuthResultsValues, sig \in SignatureValues}

\* the raw text of the fields, one "Name: value" line each, as a user pastes it
HeaderText(fields) ==
    LET text[i \in 0..Len(fields)] ==
            IF i = 0 THEN ""
            ELSE (IF i = 1 THEN "" ELSE text[i - 1] \o "\n")
                 \o fields[i].name \o ": " \o fields[i].value
    IN  text[Len(fields)]

ApiReplies == {ApiFailure} \cup {ApiReplyFor(f) : f \in HeaderFields}

\* the replies and the pasted text while the page is monitored
PageReplies ==
    {ApiFailure,
     ApiReplyFor(FieldsOf("a@corp.example", "mx; spf=pass; dkim=pass; dmarc=pass", ""))}

PageHeaderTexts == {HeaderText(FieldsOf("", "", ""))}

Evidence ==
    [path : {"dom"}, ex : Extracted, api : ApiReplies, doc : Docs,
     spam : BOOLEAN, headers : {<<>>}]
    \cup
    [path : {"apiOnly"}, ex : {CHOOSE e \in Extracted : e.email = UnknownSender},
     api : ApiReplies, doc : {<<>>}, spam : BOOLEAN, headers : {<<>>}]
    \cup
    [path : {"manual"}, ex : {CHOOSE e \in Extracted : e.email = UnknownSender},
     api : {ApiFailure}, doc : {<<>>}, spam : BOOLEAN, headers : HeaderFields]

NoOutcome == [kind |-> "none", email |-> NULL]

\* one run of the resolver on the evidence e
Resolve(e, rnd) ==
    CASE e.path = "dom" ->
            FinishDomRun(1, e.ex.name, e.ex.email, e.ex.subject, e.api, e.doc, e.spam)
      [] e.path = "apiOnly" -> FinishApiOnlyRun(1, e.api, e.spam)
      [] OTHER ->
            [kind |-> "commit",
             email |-> ProcessEmailData("manual", 0, "", "", HeaderText(e.headers), FALSE,
                                        NoResults, e.spam, rnd)]

(***************************************************************************)
(* Content script: the page and the monitoring state machine               *)
(***************************************************************************)
MaxRuns == 2       \* extractions suspended at their await
MaxTimers == 1     \* pending setTimeout callbacks of one kind
MaxMonitors == 2   \* monitorGmail calls whose observers and interval are live
MaxWaiters == 1    \* GET_CURRENT_EMAIL requests waiting for an analysis

\* label and msg are the URL (#inbox, #inbox/<id>, #spam, #spam/<id>; a spam
\* label also stands for a danger banner); dom says that a [data-message-id]
\* element is in the document, rows that list rows carrying
\* [data-legacy-thread-id] are
View(label, msg, dom, rows) == [label |-> label, msg |-> msg, dom |-> dom, rows |-> rows]

\* the list with and without thread rows, each message open in the inbox, a
\* message URL whose container is not rendered, and a message open in spam
Views ==
    {View("inbox", 0, FALSE, FALSE), View("inbox", 0, FALSE, TRUE)}
    \cup {View("inbox", m, TRUE, FALSE) : m \in 1..NMsg}
    \cup {View("inbox", 1, FALSE, FALSE), View("spam", NMsg, TRUE, FALSE)}

Url(v) == <<v.label, v.msg>>
NoUrl == <<"undefined", 0>>

\* SpoofGuardContent.isInboxView
IsInboxView(v) == v.label = "inbox" /\ v.msg = 0 /\ ~v.dom

\* lines 1243-1248 and 660-665
IsInSpamFolder(v) == v.label = "spam"

\* lines 444-450: some emailSelectors entry matches
HasContainer(v) == v.dom \/ v.rows

\* the message whose sender and subject lines 496-564 read: the open message,
\* or the first thread of the list
CapturedMsg(v) == IF v.dom THEN v.msg ELSE 1

ExtractedOf(m) ==
    IF m % 2 = 1 THEN [name |-> "Alice", email |-> "alice@gmail.com", subject |-> "Hello"]
    ELSE [name |-> "Bob", email |-> "bob@evil.example", subject |-> "Invoice"]

HasSender(ce) == ce # NULL /\ ce.sender # ""

\* SpoofGuardContent.extractGmailHeadersFromDOM up to its first await: the
\* value of currentEmail and the suspended runs it leaves
ExtractGmailHeaders(ce, rs) ==
    IF HasContainer(view)
    THEN [ce |-> ce, runs |-> rs (+) SetToBag({[path |-> "dom", msg |-> CapturedMsg(view)]})]
    ELSE IF IsInboxView(view) THEN [ce |-> NULL, runs |-> rs]
    ELSE [ce |-> ce, runs |-> rs (+) SetToBag({[path |-> "apiOnly", msg |-> view.msg]})]

\* SpoofGuardContent.analyzeCurrentEmail
AnalyzeCurrentEmail(ce, rs) ==
    IF IsInboxView(view) THEN [ce |-> NULL, runs |-> rs]
    ELSE ExtractGmailHeaders(ce, rs)

\* SpoofGuardContent.forceAnalysis
ForceAnalysisResult(ce, rs) == ExtractGmailHeaders(NULL, rs)

Apply(r) ==
    /\ BagCardinality(r.runs) <= MaxRuns
    /\ currentEmail' = r.ce
    /\ runs' = r.runs

NoResponse == [sent |-> "none", msg |-> 0, inbox |-> FALSE]

\* no request is waiting; open: Date.now() - start < maxWaitMs, due: >= maxWaitMs
NoWaiters == [open |-> 0, due |-> 0]

Init ==
    /\ view \in Views
    /\ currentEmail = NULL
    /\ realTime \in BOOLEAN
    /\ observers = 0
    /\ monitors = IF realTime THEN 1 ELSE 0
    /\ lastUrl = NoUrl
    /\ timers = IF realTime THEN [analyze |-> 1, extract |-> 1]
                ELSE [analyze |-> 0, extract |-> 0]
    /\ runs = EmptyBag
    /\ waiters = NoWaiters
    /\ lastResponse = NoResponse
    /\ evidence = NULL
    /\ outcome = NoOutcome
    /\ mail = NULL
    /\ validation = NULL
    /\ worker = NoWorker

\* the user opens another view, or the page changes under the same URL
Navigate ==
    /\ \E v \in Views \ {view} : view' = v
    /\ lastResponse' = NoResponse
    /\ UNCHANGED <<currentEmail, realTime, observers, monitors, lastUrl, timers, runs,
                   waiters, evidence, outcome, mail, validation, worker>>

\* the urlObserver callback (lines 257-274) when the URL has changed
UrlObserverFire ==
    /\ monitors >= 1
    /\ lastUrl # Url(view)
    /\ lastUrl' = Url(view)
    /\ IF IsInboxView(view)
       THEN currentEmail' = NULL /\ timers' = timers
       ELSE /\ timers.analyze < MaxTimers
            /\ timers' = [timers EXCEPT !.analyze = @ + 1]
            /\ currentEmail' = currentEmail
    /\ lastResponse' = NoResponse
    /\ UNCHANGED <<view, realTime, observers, monitors, runs, waiters, evidence, outcome, mail, validation, worker>>

\* the contentObserver callback (lines 282-304) on a mutation of the message area
ContentObserverFire ==
    /\ monitors >= 1
    /\ view.dom
    /\ timers.analyze < MaxTimers
    /\ timers' = [timers EXCEPT !.analyze = @ + 1]
    /\ lastResponse' = NoResponse
    /\ UNCHANGED <<view, currentEmail, realTime, observers, monitors, lastUrl, runs,
                   waiters, evidence, outcome, mail, validation, worker>>

\* the setInterval callback of line 313
PeriodicCheck ==
    /\ monitors >= 1
    /\ Apply(AnalyzeCurrentEmail(currentEmail, runs))
    /\ lastResponse' = NoResponse
    /\ UNCHANGED <<view, realTime, observers, monitors, lastUrl, timers, waiters,
                   evidence, outcome, mail, validation, worker>>

\* a setTimeout callback of lines 243, 270 or 300
AnalyzeTimerFire ==
    /\ timers.analyze > 0
    /\ timers' = [timers EXCEPT !.analyze = @ - 1]
    /\ Apply(AnalyzeCurrentEmail(currentEmail, runs))
    /\ lastResponse' = NoResponse
    /\ UNCHANGED <<view, realTime, observers, monitors, lastUrl, waiters, evidence, outcome, mail, validation, worker>>

\* the setTimeout callback of line 320
ExtractTimerFire ==
    /\ timers.extract > 0
    /\ timers' = [timers EXCEPT !.extract = @ - 1]
    /\ Apply(ExtractGmailHeaders(currentEmail, runs))
    /\ lastResponse' = NoResponse
    /\ UNCHANGED <<view, realTime, observers, monitors, lastUrl, waiters, evidence, outcome, mail, validation, worker>>

\* GET_CURRENT_EMAIL (lines 118-131)
GetCurrentEmail ==
    /\ IF HasSender(currentEmail)
       THEN /\ lastResponse' = [sent |-> "email", msg |-> currentEmail.msg,
                                inbox |-> IsInboxView(view)]
            /\ UNCHANGED <<currentEmail, runs, waiters>>
       ELSE /\ waiters.open + waiters.due < MaxWaiters
            /\ Apply(AnalyzeCurrentEmail(currentEmail, runs))
            /\ waiters' = [waiters EXCEPT !.open = @ + 1]
            /\ lastResponse' = NoResponse
    /\ UNCHANGED <<view, realTime, observers, monitors, lastUrl, timers,
                   evidence, outcome, mail, validation, worker>>

\* the clock of one wait passes maxWaitMs (line 172: Date.now() - start >= maxWaitMs)
WaitElapses ==
    /\ waiters.open > 0
    /\ waiters' = [open |-> waiters.open - 1, due |-> waiters.due + 1]
    /\ lastResponse' = NoResponse
    /\ UNCHANGED <<view, currentEmail, realTime, observers, monitors, lastUrl, timers,
                   runs, evidence, outcome, mail, validation, worker>>

\* a check() without the branch of lines 172-173: it resolves only with a stored
\* analysis and polls again whatever the clock says
CheckWaitNoTimeout(w) ==
    /\ waiters[w] > 0
    /\ IF HasSender(currentEmail)
       THEN /\ waiters' = [waiters EXCEPT ![w] = @ - 1]
            /\ lastResponse' = [sent |-> "email", msg |-> currentEmail.msg,
                                inbox |-> IsInboxView(view)]
       ELSE UNCHANGED <<waiters, lastResponse>>

\* check() of waitForCurrentEmail (lines 168-176) for a wait of kind w: resolves
\* with the analysis when one with a sender is stored, with null once the wait
\* is over, and polls again otherwise; the .then of line 124 sends the reply
CheckWait(w) ==
    /\ waiters[w] > 0
    /\ IF HasSender(currentEmail)
       THEN /\ waiters' = [waiters EXCEPT ![w] = @ - 1]
            /\ lastResponse' = [sent |-> "email", msg |-> currentEmail.msg,
                                inbox |-> IsInboxView(view)]
       ELSE IF w = "due"
       THEN /\ waiters' = [waiters EXCEPT ![w] = @ - 1]
            /\ lastResponse' = [sent |-> "null", msg |-> 0, inbox |-> IsInboxView(view)]
       ELSE UNCHANGED <<waiters, lastResponse>>

WaiterPoll ==
    /\ \E w \in {"open", "due"} : CheckWait(w)
    /\ UNCHANGED <<view, currentEmail, realTime, observers, monitors, lastUrl, timers,
                   runs, evidence, outcome, mail, validation, worker>>

\* FORCE_ANALYSIS (lines 133-137)
ForceAnalysis ==
    /\ Apply(ForceAnalysisResult(currentEmail, runs))
    /\ lastResponse' = NoResponse
    /\ UNCHANGED <<view, realTime, observers, monitors, lastUrl, timers, waiters,
                   evidence, outcome, mail, validation, worker>>

\* ANALYZE_EMAIL (lines 148-150)
AnalyzeEmail ==
    /\ Apply(AnalyzeCurrentEmail(currentEmail, runs))
    /\ lastResponse' = NoResponse
    /\ UNCHANGED <<view, realTime, observers, monitors, lastUrl, timers, waiters,
                   evidence, outcome, mail, validation, worker>>

\* SpoofGuardContent.stopMonitoring: it disconnects the entries of observers,
\* an array nothing is ever pushed to; the observers and the interval that
\* monitorGmail created stay live
StopMonitoring(m) == m

\* SETTINGS_UPDATED (lines 139-146) with startMonitoring, stopMonitoring and
\* monitorGmail
SettingsUpdated ==
    /\ \E b \in BOOLEAN :
        /\ realTime' = b
        /\ IF b
           THEN /\ StopMonitoring(monitors) < MaxMonitors
                /\ timers.analyze < MaxTimers /\ timers.extract < MaxTimers
                /\ monitors' = StopMonitoring(monitors) + 1
                /\ timers' = [analyze |-> timers.analyze + 1, extract |-> timers.extract + 1]
           ELSE /\ monitors' = StopMonitoring(monitors)
                /\ timers' = timers
    /\ observers' = 0
    /\ lastResponse' = NoResponse
    /\ UNCHANGED <<view, currentEmail, lastUrl, runs, waiters, evidence, outcome, mail, validation, worker>>

\* the triples <<pasted text, draws, analysis>> of a manual analysis, computed once
ManualTable ==
    [spam \in BOOLEAN |->
        {<<h, rnd, ProcessEmailData("manual", 0, "", "", h, FALSE, NoResults, spam, rnd)>> :
            h \in PageHeaderTexts, rnd \in RandomDraws}]

\* ANALYZE_HEADERS (lines 152-160): processEmailData on the pasted text
AnalyzeHeaders ==
    /\ \E made \in ManualTable[IsInSpamFolder(view)] : currentEmail' = made[3]
    /\ lastResponse' = NoResponse
    /\ UNCHANGED <<view, realTime, observers, monitors, lastUrl, timers, runs, waiters,
                   evidence, outcome, mail, validation, worker>>

FinishRun(run, api, doc, isInSpamFolder) ==
    IF run.path = "dom"
    THEN FinishDomRun(run.msg, ExtractedOf(run.msg).name, ExtractedOf(run.msg).email,
                      ExtractedOf(run.msg).subject, api, doc, isInSpamFolder)
    ELSE FinishApiOnlyRun(run.msg, api, isInSpamFolder)

MaxPageLen == 1    \* elements carrying security text on a monitored page

PageDocs == {d \in Docs : Len(d) <= MaxPageLen}

\* what a suspended run ends in, for each reply, page and spam context: the
\* triples <<reply, page, end of the run>>, computed once
FinishTable ==
    [path \in {"dom", "apiOnly"} |-> [msg \in 1..NMsg |-> [spam \in BOOLEAN |->
        {<<api, doc, FinishRun([path |-> path, msg |-> msg], api, doc, spam)>> :
            api \in PageReplies, doc \in PageDocs}]]]

\* the reply to GMAIL_API_HEADERS arrives and the suspended run goes on to
\* its end (lines 464-492 or 575-602)
ApiReplyArrives ==
    /\ \E run \in BagToSet(runs) :
       \E end \in FinishTable[run.path][run.msg][IsInSpamFolder(view)] :
          LET done == end[3] IN
          /\ currentEmail' = IF done.kind = "commit" THEN done.email ELSE currentEmail
          /\ runs' = runs (-) SetToBag({run})
    /\ lastResponse' = NoResponse
    /\ UNCHANGED <<view, realTime, observers, monitors, lastUrl, timers, waiters,
                   evidence, outcome, mail, validation, worker>>

Next ==
    \/ Navigate
    \/ UrlObserverFire
    \/ ContentObserverFire
    \/ PeriodicCheck
    \/ AnalyzeTimerFire
    \/ ExtractTimerFire
    \/ GetCurrentEmail
    \/ WaitElapses
    \/ WaiterPoll
    \/ ForceAnalysis
    \/ AnalyzeEmail
    \/ SettingsUpdated
    \/ AnalyzeHeaders
    \/ ApiReplyArrives

Spec == Init /\ [][Next]_vars

(***************************************************************************)
(* The resolver on its own: one piece of evidence, resolved again and      *)
(* again                                                                   *)
(***************************************************************************)
SpamView == View("spam", NMsg, TRUE, FALSE)
InboxMessageView == View("inbox", 1, TRUE, FALSE)

InitResolve ==
    /\ evidence \in Evidence
    /\ outcome = NoOutcome
    /\ view = IF evidence.spam THEN SpamView ELSE InboxMessageView
    /\ currentEmail = NULL
    /\ realTime = FALSE
    /\ observers = 0
    /\ monitors = 0
    /\ lastUrl = NoUrl
    /\ timers = [analyze |-> 0, extract |-> 0]
    /\ runs = EmptyBag
    /\ waiters = NoWaiters
    /\ lastResponse = NoResponse
    /\ mail = NULL
    /\ validation = NULL
    /\ worker = NoWorker

\* a run of extractGmailHeadersFromDOM, or the ANALYZE_HEADERS handler, from
\* its start to its end on the evidence at hand
RunResolver ==
    /\ \E rnd \in (IF evidence.path = "manual" THEN RandomDraws ELSE {NoDraws}) :
          LET done == Resolve(evidence, rnd) IN
          /\ outcome' = done
          /\ currentEmail' = IF done.kind = "commit" THEN done.email ELSE currentEmail
    /\ UNCHANGED <<view, realTime, observers, monitors, lastUrl, timers, runs, waiters,
                   lastResponse, evidence, mail, validation, worker>>

NextResolve == RunResolver

SpecResolve == InitResolve /\ [][NextResolve]_vars

(***************************************************************************)
(* The service worker: EMAIL_ANALYZED and the validation of its headers    *)
(***************************************************************************)
\* emailData.headers: the pasted text of a manual analysis, or the object
\* that extractGmailHeadersFromDOM stores (line 595)
MailHeaders ==
    {[isString |-> TRUE, text |-> HeaderText(f)] : f \in HeaderFields}
    \cup {[isString |-> FALSE, text |-> "", from |-> "Bob <bob@evil.example>"]}

SpfAnswers == {<<>>, <<"v=spf1 include:_spf.corp.example ~all">>, <<"v=spf1 -all">>}
DmarcAnswers == {<<>>, <<"v=DMARC1; p=reject">>, <<"v=DMARC1">>}

InitValidate ==
    /\ mail = NULL
    /\ validation = NULL
    /\ evidence = NULL
    /\ outcome = NoOutcome
    /\ view = InboxMessageView
    /\ currentEmail = NULL
    /\ realTime = FALSE
    /\ observers = 0
    /\ monitors = 0
    /\ lastUrl = NoUrl
    /\ timers = [analyze |-> 0, extract |-> 0]
    /\ runs = EmptyBag
    /\ waiters = NoWaiters
    /\ lastResponse = NoResponse
    /\ worker = NoWorker

\* handleEmailAnalyzed up to the DNS lookups of validateEmailHeaders
EmailAnalyzed ==
    /\ mail = NULL \/ validation # NULL
    /\ \E h \in MailHeaders : mail' = h
    /\ validation' = NULL
    /\ evidence' = NULL
    /\ UNCHANGED <<view, currentEmail, realTime, observers, monitors, lastUrl, timers,
                   runs, waiters, lastResponse, outcome, worker>>

\* the DNS answers arrive and validateEmailHeaders runs to its end; evidence
\* keeps the answers it ran on (analysis.dnsRecords, lines 190-193)
DnsReplies ==
    /\ mail # NULL
    /\ validation = NULL
    /\ \E spfRecords \in SpfAnswers, dmarcRecords \in DmarcAnswers :
          /\ validation' = ValidateEmailHeaders(mail, spfRecords, dmarcRecords)
          /\ evidence' = [spf |-> spfRecords, dmarc |-> dmarcRecords]
    /\ UNCHANGED <<view, currentEmail, realTime, observers, monitors, lastUrl, timers,
                   runs, waiters, lastResponse, outcome, mail, worker>>

NextValidate ==
    \/ EmailAnalyzed
    \/ DnsReplies

SpecValidate == InitValidate /\ [][NextValidate]_vars

(***************************************************************************)
(* The popup's request and what can happen while it waits: the page        *)
(* changes, an extraction ends, the analysis is forced anew.  check() is   *)
(* re-armed by setTimeout until it resolves and the clock never stops, so  *)
(* both are taken whenever they stay possible                              *)
(***************************************************************************)
NextReply ==
    \/ Navigate
    \/ GetCurrentEmail
    \/ WaitElapses
    \/ WaiterPoll
    \/ ForceAnalysis
    \/ ApiReplyArrives

SpecReply == Init /\ [][NextReply]_vars /\ WF_vars(WaitElapses) /\ WF_vars(WaiterPoll)

(***************************************************************************)
(* The two normalizeAuthStatus methods on the same raw status token        *)
(***************************************************************************)
TokenPrefixes == {"", "x-"}
TokenWords ==
    {"pass", "Pass", "fail", "FAIL", "softfail", "hardfail", "none", "neutral",
     "temperror", "permerror", "error", "failure", "absent", "present", "found",
     "suspicious", "ok", "bogus"}
TokenSuffixes == {"", "ed", " "}

\* what is found after spf=, dkim= or dmarc=, or in a status field of the page
RawTokens == {p \o w \o x : p \in TokenPrefixes, w \in TokenWords, x \in TokenSuffixes}

NotNormalized == [api |-> "", content |-> ""]

InitNormalize ==
    /\ evidence \in RawTokens
    /\ outcome = NotNormalized
    /\ view = InboxMessageView
    /\ currentEmail = NULL
    /\ realTime = FALSE
    /\ observers = 0
    /\ monitors = 0
    /\ lastUrl = NoUrl
    /\ timers = [analyze |-> 0, extract |-> 0]
    /\ runs = EmptyBag
    /\ waiters = NoWaiters
    /\ lastResponse = NoResponse
    /\ mail = NULL
    /\ validation = NULL
    /\ worker = NoWorker

\* GmailAPIClient.normalizeAuthStatus(token) (gmail-api.js 680-692)
NormalizeByApi ==
    /\ outcome' = [outcome EXCEPT !.api = ApiNormalizeAuthStatus(evidence)]
    /\ UNCHANGED <<view, currentEmail, realTime, observers, monitors, lastUrl, timers,
                   runs, waiters, lastResponse, evidence, mail, validation, worker>>

\* SpoofGuardContent.normalizeAuthStatus(token) (content.js 1322-1357)
NormalizeByContent ==
    /\ outcome' = [outcome EXCEPT !.content = ContentNormalizeAuthStatus(evidence)]
    /\ UNCHANGED <<view, currentEmail, realTime, observers, monitors, lastUrl, timers,
                   runs, waiters, lastResponse, evidence, mail, validation, worker>>

NextNormalize ==
    \/ NormalizeByApi
    \/ NormalizeByContent

SpecNormalize == InitNormalize /\ [][NextNormalize]_vars

(***************************************************************************)
(* Scoring: the content script scores an analysis by its authentication    *)
(* checks, the popup displays it with the composite of authentication and  *)
(* content classification                                                  *)
(***************************************************************************)
\* SpoofGuardPopup.computeAuthScore (popup.js 524-535)
ScoreFor(s) ==
    IF ToLowerCase(s) = "pass" THEN 20
    ELSE IF ToLowerCase(s) \in {"softfail", "neutral", "present"} THEN 10
    ELSE 0

ComputeAuthScore(spf, dkim, dmarc) ==
    Max(0, Min(60, ScoreFor(spf) + ScoreFor(dkim) + ScoreFor(dmarc)))

\* the tests of SpoofGuardPopup.mapContentScore on the lower-cased label
ContentScoreOf(l) ==
    IF l = "normal" THEN 40
    ELSE IF l = "suspicious" THEN 20
    ELSE IF Includes(l, "harass") \/ Includes(l, "harras") THEN 10
    ELSE IF l = "fraudulent" THEN 0
    ELSE 20

\* mapContentScore comparing the label as the classifier spelled it
MapContentScoreCaseSensitive(label) == ContentScoreOf(label)

\* SpoofGuardPopup.mapContentScore (popup.js 537-544); "" stands for undefined
MapContentScore(label) == ContentScoreOf(ToLowerCase(label))

\* the statuses simulateHeaderAnalysis hands to calculateSecurityScore
ScoreStatuses == {"pass", "softfail", "neutral", "present", "fail", "none", "unknown"}

\* analysis.aiClassification as the classifier words it; "" when there is none
Labels == {"", "Normal", "normal", "Suspicious", "Harassment", "FRAUDULENT", "Spam"}

ScoreInputs ==
    [spf : ScoreStatuses, dkim : ScoreStatuses, dmarc : ScoreStatuses,
     hasAuthResults : BOOLEAN, isKnownProvider : BOOLEAN, isInSpamFolder : BOOLEAN,
     aiClassification : Labels]

InitScore ==
    /\ evidence \in ScoreInputs
    /\ outcome = NoOutcome
    /\ view = InboxMessageView
    /\ currentEmail = NULL
    /\ realTime = FALSE
    /\ observers = 0
    /\ monitors = 0
    /\ lastUrl = NoUrl
    /\ timers = [analyze |-> 0, extract |-> 0]
    /\ runs = EmptyBag
    /\ waiters = NoWaiters
    /\ lastResponse = NoResponse
    /\ mail = NULL
    /\ validation = NULL
    /\ worker = NoWorker

\* the end of simulateHeaderAnalysis (content.js 1315-1316)
Scored(securityScore) ==
    [kind |-> "analysis", securityScore |-> securityScore,
     riskLevel |-> DetermineRiskLevel(securityScore)]

ScoreAnalysis ==
    /\ outcome.kind = "none"
    /\ outcome' = Scored(CalculateSecurityScore(evidence.spf, evidence.dkim, evidence.dmarc,
                             evidence.hasAuthResults, evidence.isKnownProvider,
                             evidence.isInSpamFolder))
    /\ UNCHANGED <<view, currentEmail, realTime, observers, monitors, lastUrl, timers,
                   runs, waiters, lastResponse, evidence, mail, validation, worker>>

\* what displayEmailAnalysis shows of an analysis a (popup.js 316-329)
Displayed(a, authScore, contentScore) ==
    [kind |-> "displayed", securityScore |-> a.securityScore, riskLevel |-> a.riskLevel,
     authScore |-> authScore, contentScore |-> contentScore,
     score |-> Max(0, Min(100, authScore + contentScore))]

\* SpoofGuardPopup.displayEmailAnalysis of the analysis the content script sent
DisplayEmailAnalysis ==
    /\ outcome.kind = "analysis"
    /\ outcome' = Displayed(outcome,
                            ComputeAuthScore(evidence.spf, evidence.dkim, evidence.dmarc),
                            MapContentScore(evidence.aiClassification))
    /\ UNCHANGED <<view, currentEmail, realTime, observers, monitors, lastUrl, timers,
                   runs, waiters, lastResponse, evidence, mail, validation, worker>>

NextScore ==
    \/ ScoreAnalysis
    \/ DisplayEmailAnalysis

SpecScore == InitScore /\ [][NextScore]_vars

(***************************************************************************)
(* The service worker's DNS lookups: validateEmailHeaders asks              *)
(* performDNSLookup for the TXT records of the sender domain and of its     *)
(* _dmarc name; one validation is in progress at a time                     *)
(***************************************************************************)
MaxClock == 3          \* ticks the clock of the worker advances
TimeoutTicks == 2      \* settings.cacheTimeout, in ticks of that clock

\* line 267: `${domain}:${recordType}`
CacheKey(domain, recordType) == domain \o ":" \o recordType

\* the entry of the key, NULL when dnsCache.has(key) is false
EntryOf(w, key) == IF key \in DOMAIN w.cache THEN w.cache[key] ELSE NULL

\* the test of line 272 with <= in place of <
CacheHitInclusive(w, key) ==
    key \in DOMAIN w.cache /\ w.now - w.cache[key].timestamp <= TimeoutTicks

\* lines 270-272: dnsCache.has(cacheKey) and the entry is younger than cacheTimeout
CacheHit(w, key) ==
    key \in DOMAIN w.cache /\ w.now - w.cache[key].timestamp < TimeoutTicks

\* a call of performDNSLookup: its key, where it stands, how it ended (it
\* returns or it throws), what it returns, and the entry it found at its start
Idle == [state |-> "idle", key |-> "", ends |-> "", data |-> <<>>, seen |-> NULL]
NoLookups == [spf |-> Idle, dmarc |-> Idle]

\* performDNSLookup up to its await (lines 266-282)
CallLookup(w, key) ==
    IF CacheHit(w, key)
    THEN [state |-> "cached", key |-> key, ends |-> "returns",
          data |-> w.cache[key].data, seen |-> EntryOf(w, key)]
    ELSE [state |-> "pending", key |-> key, ends |-> "", data |-> <<>>,
          seen |-> EntryOf(w, key)]

\* what the DoH server sends: Answer records with their type and quoted data, or
\* a failure of fetch, a status other than 2xx, a body that is no JSON
Txt(data) == [type |-> 16, data |-> data]
DohAnswers ==
    {<<>>,
     <<Txt("\"v=spf1 include:_spf.corp.example ~all\"")>>,
     <<[type |-> 5, data |-> "mx.corp.example."], Txt("\"v=DMARC1; p=reject\"")>>}
DohReplies ==
    {[kind |-> "ok", answer |-> a] : a \in DohAnswers}
    \cup {[kind |-> k, answer |-> <<>>] : k \in {"network", "status", "parse"}}

\* record.data.replace(/"/g, '')
RemoveQuotes(s) ==
    LET strip[i \in 0..Len(s)] ==
            IF i = 0 THEN ""
            ELSE LET before == strip[i - 1]
                 IN  IF Char(s, i) = "\"" THEN before ELSE before \o Char(s, i)
    IN  strip[Len(s)]

IsTxt(record) == record.type = 16

\* lines 293-297: the TXT answers, unquoted
UnquotedData(txt) == [i \in 1..Len(txt) |-> RemoveQuotes(txt[i].data)]
TxtRecords(answer) == UnquotedData(SelectSeq(answer, IsTxt))

\* lines 300-305: dnsCache.set(cacheKey, {data, timestamp}) and the return
StoreRecords(w, key, txtRecords) ==
    [w EXCEPT !.cache = (key :> [data |-> txtRecords, timestamp |-> w.now]) @@ w.cache]
Fetched(lookup, txtRecords) ==
    [lookup EXCEPT !.state = "fetched", !.ends = "returns", !.data = txtRecords]

\* a catch that hands the error on to its caller
FailedLookupRethrows(lookup) == [lookup EXCEPT !.state = "failed", !.ends = "throws"]

\* lines 306-309: the catch returns []
FailedLookup(lookup) ==
    [lookup EXCEPT !.state = "failed", !.ends = "returns", !.data = <<>>]

LookupMails ==
    {[isString |-> TRUE, text |-> HeaderText(FieldsOf(from, auth, ""))] :
        from \in {"", "a@corp.example"},
        auth \in {"", "mx; spf=pass; dkim=pass; dmarc=pass"}}

InitDns ==
    /\ mail = NULL
    /\ validation = NULL
    /\ evidence = NoLookups
    /\ outcome = NoOutcome
    /\ worker = NoWorker
    /\ view = InboxMessageView
    /\ currentEmail = NULL
    /\ realTime = FALSE
    /\ observers = 0
    /\ monitors = 0
    /\ lastUrl = NoUrl
    /\ timers = [analyze |-> 0, extract |-> 0]
    /\ runs = EmptyBag
    /\ waiters = NoWaiters
    /\ lastResponse = NoResponse

\* validateEmailHeaders up to its await (lines 155-174) for the sender domain
StartLookups(headers, domain) ==
    IF domain = ""
    THEN /\ validation' = ValidateEmailHeaders(headers, <<>>, <<>>)
         /\ evidence' = NoLookups
    ELSE /\ validation' = NULL
         /\ evidence' = [spf |-> CallLookup(worker, CacheKey(domain, "TXT")),
                         dmarc |-> CallLookup(worker, CacheKey("_dmarc." \o domain, "TXT"))]

ValidationStarts ==
    /\ mail = NULL \/ validation # NULL
    /\ \E h \in LookupMails :
          /\ mail' = h
          /\ StartLookups(h, ExtractDomainFromHeaders(ParseEmailHeaders(h)))
    /\ UNCHANGED <<view, currentEmail, realTime, observers, monitors, lastUrl, timers,
                   runs, waiters, lastResponse, outcome, worker>>

\* the fetch of one pending lookup ends (lines 280-309)
DohReplyArrives ==
    /\ \E m \in {"spf", "dmarc"}, reply \in DohReplies :
          /\ evidence[m].state = "pending"
          /\ IF reply.kind = "ok"
             THEN /\ evidence' = [evidence EXCEPT ![m] = Fetched(@, TxtRecords(reply.answer))]
                  /\ worker' = StoreRecords(worker, evidence[m].key, TxtRecords(reply.answer))
             ELSE /\ evidence' = [evidence EXCEPT ![m] = FailedLookup(@)]
                  /\ UNCHANGED worker
    /\ UNCHANGED <<view, currentEmail, realTime, observers, monitors, lastUrl, timers,
                   runs, waiters, lastResponse, outcome, mail, validation>>

\* the catch of validateEmailHeaders (lines 201-207)
ValidationError ==
    [error |-> "DNS lookup failed", securityScore |-> 0, riskLevel |-> "high"]

\* both lookups have settled: validateEmailHeaders runs to its end (176-200),
\* or to the end of its catch when a lookup rejected
ValidationCompletes ==
    /\ mail # NULL
    /\ validation = NULL
    /\ \A m \in {"spf", "dmarc"} : evidence[m].ends # ""
    /\ validation' =
          IF \E m \in {"spf", "dmarc"} : evidence[m].ends = "throws"
          THEN ValidationError
          ELSE ValidateEmailHeaders(mail, evidence.spf.data, evidence.dmarc.data)
    /\ UNCHANGED <<view, currentEmail, realTime, observers, monitors, lastUrl, timers,
                   runs, waiters, lastResponse, evidence, outcome, mail, worker>>

\* Date.now() advances
ClockTick ==
    /\ worker.now < MaxClock
    /\ worker' = [worker EXCEPT !.now = @ + 1]
    /\ UNCHANGED <<view, currentEmail, realTime, observers, monitors, lastUrl, timers,
                   runs, waiters, lastResponse, evidence, outcome, mail, validation>>

\* clearExpiredCache (lines 569-578), on the clearCache alarm
ClearExpiredCache ==
    /\ worker' = [worker EXCEPT !.cache =
                     [k \in {j \in DOMAIN worker.cache :
                                ~(worker.now - worker.cache[j].timestamp > TimeoutTicks)}
                        |-> worker.cache[k]]]
    /\ UNCHANGED <<view, currentEmail, realTime, observers, monitors, lastUrl, timers,
                   runs, waiters, lastResponse, evidence, outcome, mail, validation>>

NextDns ==
    \/ ValidationStarts
    \/ DohReplyArrives
    \/ ValidationCompletes
    \/ ClockTick
    \/ ClearExpiredCache

SpecDns == InitDns /\ [][NextDns]_vars

(***************************************************************************)
(* Header parsing: the popup's manual parser, the service worker's parser  *)
(* and the API client's header map on the same message                     *)
(***************************************************************************)
\* the class \w of the popup's regular expressions
IsWordChar(c) == Includes(UpperAlpha \o LowerAlpha \o "0123456789_", c)

\* the capture of /key(\w+)/ in s; "" when there is no match
MatchWord(s, key) ==
    LET Word(p) == TakeUntil(SubSeq(s, p + Len(key), Len(s)),
                             {Char(s, i) : i \in {j \in 1..Len(s) : ~IsWordChar(Char(s, j))}})
        hits == {p \in 1..(Len(s) - Len(key) + 1) :
                    SubSeq(s, p, p + Len(key) - 1) = key /\ Word(p) # ""}
    IN  IF hits = {} THEN "" ELSE Word(Least(hits))

\* SpoofGuardPopup.parseEmailHeaders, lines 186-230: one line of the header
\* text.  open names what the inner while loop of the last field line is
\* collecting ("" when that line has no such loop), so that a line beginning
\* with whitespace is appended to it or passed over.
PopupParseStep(st, originalLine) ==
    LET line == ToLowerCase(originalLine)
        Rest(n) == Trim(SubSeq(originalLine, n + 1, Len(originalLine)))
    IN  IF Len(originalLine) > 0 /\ IsSpace(Char(originalLine, 1))
        THEN CASE st.open = "sender" ->
                    [st EXCEPT !.sender = @ \o " " \o Trim(originalLine)]
               [] st.open = "subject" ->
                    [st EXCEPT !.subject = @ \o " " \o Trim(originalLine)]
               [] st.open = "auth" ->
                    [st EXCEPT !.authBlocks[Len(st.authBlocks)] =
                                   @ \o " " \o ToLowerCase(Trim(originalLine))]
               [] OTHER -> st
        ELSE IF StartsWith(line, "from:")
        THEN [st EXCEPT !.sender = Rest(5), !.open = "sender"]
        ELSE IF StartsWith(line, "subject:")
        THEN [st EXCEPT !.subject = Rest(8), !.open = "subject"]
        ELSE IF StartsWith(line, "return-path:")
        THEN [st EXCEPT !.returnPath = Rest(12), !.open = ""]
        ELSE IF \/ StartsWith(line, "authentication-results")
                \/ StartsWith(line, "arc-authentication-results")
        THEN [st EXCEPT !.authBlocks = Append(@, line), !.open = "auth"]
        ELSE [st EXCEPT !.open = ""]

\* SpoofGuardPopup.calculateSecurityScore
PopupCalculateSecurityScore(spf, dkim, dmarc) ==
    LET Points(status, weight) ==
            CASE status = "pass" -> weight * 10
              [] status \in {"softfail", "neutral"} -> weight * 5
              [] OTHER -> 0
    IN  RoundTenths(Points(spf, WeightSPF) + Points(dkim, WeightDKIM)
                    + Points(dmarc, WeightDMARC))

\* lines 233-254: the status of one check, read in the first block only
PopupStatusIn(authBlocks, name) ==
    IF Len(authBlocks) > 0 /\ MatchWord(authBlocks[1], name \o "=") # ""
    THEN MatchWord(authBlocks[1], name \o "=")
    ELSE "missing"

\* SpoofGuardPopup.parseEmailHeaders
PopupAnalysisOf(last, spf, dkim, dmarc) ==
    [sender |-> last.sender, subject |-> last.subject, returnPath |-> last.returnPath,
     spf |-> spf, dkim |-> dkim, dmarc |-> dmarc,
     securityScore |-> PopupCalculateSecurityScore(spf, dkim, dmarc),
     riskLevel |-> DetermineRiskLevel(PopupCalculateSecurityScore(spf, dkim, dmarc))]

PopupParseEmailHeaders(headerText) ==
    LET lines == Lines(headerText)
        scan[i \in 0..Len(lines)] ==
            IF i = 0
            THEN [sender |-> "", subject |-> "", returnPath |-> "", authBlocks |-> <<>>,
                  open |-> ""]
            ELSE LET before == scan[i - 1] IN PopupParseStep(before, lines[i])
    IN  PopupAnalysisOf(scan[Len(lines)],
                        PopupStatusIn(scan[Len(lines)].authBlocks, "spf"),
                        PopupStatusIn(scan[Len(lines)].authBlocks, "dkim"),
                        PopupStatusIn(scan[Len(lines)].authBlocks, "dmarc"))

\* the messages parsed: a From field on one line or folded, a Return-Path
\* field absent, on one line or folded, and up to two result blocks
ParseFromValues == {"a@corp.example", "Eve Adams\n <eve@Corp.Example>"}
ParseReturnPathValues == {"", "<b@corp.example>", "<b@corp.example>\n (Bounce)"}
PassBlock == "mx.corp.example; spf=pass; dkim=pass; dmarc=pass"
FailBlock == "relay.example; spf=fail; dkim=fail; dmarc=fail"
ResultBlocks ==
    {<<>>,
     <<Field("Authentication-Results", PassBlock)>>,
     <<Field("Authentication-Results", "mx.corp.example;\n spf=pass; dkim=pass;\n dmarc=pass")>>,
     <<Field("Authentication-Results", PassBlock), Field("Authentication-Results", FailBlock)>>,
     <<Field("Authentication-Results", FailBlock), Field("Authentication-Results", PassBlock)>>,
     <<Field("ARC-Authentication-Results", "i=1; " \o PassBlock),
       Field("Authentication-Results", FailBlock)>>}

ParseFields ==
    {<<Field("From", from)>>
     \o (IF returnPath # "" THEN <<Field("Return-Path", returnPath)>> ELSE <<>>)
     \o blocks :
        from \in ParseFromValues, returnPath \in ParseReturnPathValues, blocks \in ResultBlocks}

NotParsed == [done |-> FALSE]

InitParse ==
    /\ evidence \in ParseFields
    /\ outcome = [background |-> NotParsed, popup |-> NotParsed, api |-> NotParsed]
    /\ view = InboxMessageView
    /\ currentEmail = NULL
    /\ realTime = FALSE
    /\ observers = 0
    /\ monitors = 0
    /\ lastUrl = NoUrl
    /\ timers = [analyze |-> 0, extract |-> 0]
    /\ runs = EmptyBag
    /\ waiters = NoWaiters
    /\ lastResponse = NoResponse
    /\ mail = NULL
    /\ validation = NULL
    /\ worker = NoWorker

\* the service worker parses the raw text of the message
ParseByBackground ==
    /\ ~outcome.background.done
    /\ outcome' = [outcome EXCEPT !.background =
                     [done |-> TRUE,
                      headers |-> ParseEmailHeaders([isString |-> TRUE,
                                                     text |-> HeaderText(evidence)])]]
    /\ UNCHANGED <<view, currentEmail, realTime, observers, monitors, lastUrl, timers, runs, waiters, lastResponse, evidence, mail, validation, worker>>

\* the user pastes the raw text into the popup (analyzeManualHeaders)
ParseByPopup ==
    /\ ~outcome.popup.done
    /\ outcome' = [outcome EXCEPT !.popup =
                     [done |-> TRUE, analysis |-> PopupParseEmailHeaders(HeaderText(evidence))]]
    /\ UNCHANGED <<view, currentEmail, realTime, observers, monitors, lastUrl, timers, runs, waiters, lastResponse, evidence, mail, validation, worker>>

\* the Gmail API returns the fields of the message (parseGmailAPIResponse)
ParseByApi ==
    /\ ~outcome.api.done
    /\ outcome' = [outcome EXCEPT !.api =
                     [done |-> TRUE, headers |-> HeaderMap(evidence),
                      authenticationResults |->
                          ExtractAuthenticationFromHeaders(HeaderMap(evidence))]]
    /\ UNCHANGED <<view, currentEmail, realTime, observers, monitors, lastUrl, timers, runs, waiters, lastResponse, evidence, mail, validation, worker>>

NextParse ==
    \/ ParseByBackground
    \/ ParseByPopup
    \/ ParseByApi

SpecParse == InitParse /\ [][NextParse]_vars

(***************************************************************************)
(* API client: the alignment heuristic of the DMARC explanation            *)
(***************************************************************************)
\* String.prototype.endsWith
EndsWith(s, suffix) ==
    Len(s) >= Len(suffix) /\ SubSeq(s, Len(s) - Len(suffix) + 1, Len(s)) = suffix

\* relaxedAligned of extractAuthenticationFromHeaders, line 631
RelaxedAligned(a, b) == a # "" /\ b # "" /\ (a = b \/ EndsWith(a, "." \o b))

\* lines 633-647: the explanation attached to the DMARC result
DmarcExplanation(dmarcStatus, spfAlignedPass, dkimAlignedPass) ==
    IF dmarcStatus = "fail"
    THEN (IF ~spfAlignedPass /\ ~dkimAlignedPass
          THEN "DMARC failed: neither SPF nor DKIM passed with domain alignment"
          ELSE IF ~spfAlignedPass THEN "DMARC failed: SPF not aligned with From domain"
          ELSE IF ~dkimAlignedPass THEN "DMARC failed: DKIM not aligned with From domain"
          ELSE "DMARC failed: policy enforcement triggered")
    ELSE IF dmarcStatus = "none" THEN "DMARC none: domain does not publish DMARC policy"
    ELSE ""

\* the domains of header.from, smtp.mailfrom and header.i ("" when the token
\* is absent), and the verdicts of the block
AlignDomains == {"", "corp.example", "mail.corp.example", "xcorp.example", "evil.example"}

AlignInputs ==
    [fromDomain : AlignDomains, spfDomain : AlignDomains, dkimDomain : AlignDomains,
     spf : {"pass", "fail"}, dkim : {"pass"}, dmarc : {"fail", "pass"}]

InitAlign ==
    /\ evidence \in AlignInputs
    /\ outcome = NotParsed
    /\ view = InboxMessageView
    /\ currentEmail = NULL
    /\ realTime = FALSE
    /\ observers = 0
    /\ monitors = 0
    /\ lastUrl = NoUrl
    /\ timers = [analyze |-> 0, extract |-> 0]
    /\ runs = EmptyBag
    /\ waiters = NoWaiters
    /\ lastResponse = NoResponse
    /\ mail = NULL
    /\ validation = NULL
    /\ worker = NoWorker

Explained(e, spfAlignedPass, dkimAlignedPass) ==
    [done |-> TRUE, spfAlignedPass |-> spfAlignedPass, dkimAlignedPass |-> dkimAlignedPass,
     explanation |-> DmarcExplanation(e.dmarc, spfAlignedPass, dkimAlignedPass)]

\* extractAuthenticationFromHeaders reaches the DMARC section of the block
ExplainDmarc ==
    /\ ~outcome.done
    /\ outcome' = Explained(evidence,
                            evidence.spf = "pass"
                                /\ RelaxedAligned(evidence.spfDomain, evidence.fromDomain),
                            evidence.dkim = "pass"
                                /\ RelaxedAligned(evidence.dkimDomain, evidence.fromDomain))
    /\ UNCHANGED <<view, currentEmail, realTime, observers, monitors, lastUrl, timers, runs, waiters, lastResponse, evidence, mail, validation, worker>>

NextAlign == ExplainDmarc

SpecAlign == InitAlign /\ [][NextAlign]_vars

(***************************************************************************)
(* API client: authenticate() and its callers                              *)
(*                                                                         *)
(* worker holds the client's fields and the clock, evidence the calls of   *)
(* authenticate() that GMAIL_API_AUTH, getGmailHeaders and                 *)
(* getRawEmailHeaders make.  A call runs without interruption up to its    *)
(* next await.  Time is counted in ticks, HourTicks of them to the hour.   *)
(***************************************************************************)
MaxCalls == 2       \* calls of authenticate() that may be open at once
MaxAuthClock == 4   \* ticks the clock may advance
HourTicks == 2      \* 3600 * 1000 ms

\* the constructor, lines 317-321; "" and 0 stand for null
NoAuth == [now |-> 1, accessToken |-> "", tokenExpiry |-> 0, isAuthenticating |-> FALSE]

NoCall == [pc |-> "idle", result |-> "none", via |-> ""]

\* outcome holds the reply the last callback brought
NoReply == [token |-> "", stated |-> FALSE, expiresIn |-> 0]

\* isTokenValid with <= for <
IsTokenValidInclusive(w) ==
    w.accessToken # "" /\ w.tokenExpiry # 0 /\ w.now <= w.tokenExpiry

\* GmailAPIClient.isTokenValid
IsTokenValid(w) == w.accessToken # "" /\ w.tokenExpiry # 0 /\ w.now < w.tokenExpiry

Returned(result, via) == [pc |-> "returned", result |-> result, via |-> via]

InitAuth ==
    /\ worker = NoAuth
    /\ evidence = [c \in 1..MaxCalls |-> NoCall]
    /\ outcome = NoReply
    /\ view = InboxMessageView
    /\ currentEmail = NULL
    /\ realTime = FALSE
    /\ observers = 0
    /\ monitors = 0
    /\ lastUrl = NoUrl
    /\ timers = [analyze |-> 0, extract |-> 0]
    /\ runs = EmptyBag
    /\ waiters = NoWaiters
    /\ lastResponse = NoResponse
    /\ mail = NULL
    /\ validation = NULL

\* authenticate() without the test of isAuthenticating
EnterAuthenticateUnguarded(w, call) ==
    IF IsTokenValid(w) THEN [w |-> w, call |-> Returned("true", "cached")]
    ELSE [w |-> [w EXCEPT !.isAuthenticating = TRUE],
          call |-> [call EXCEPT !.pc = "getAuthToken"]]

\* authenticate(), lines 328-350: from the call to the await of getAuthToken
EnterAuthenticate(w, call) ==
    IF w.isAuthenticating THEN [w |-> w, call |-> Returned("false", "busy")]
    ELSE IF IsTokenValid(w) THEN [w |-> w, call |-> Returned("true", "cached")]
    ELSE [w |-> [w EXCEPT !.isAuthenticating = TRUE],
          call |-> [call EXCEPT !.pc = "getAuthToken"]]

Authenticate ==
    \E c \in 1..MaxCalls :
        /\ evidence[c].pc = "idle"
        /\ worker' = EnterAuthenticate(worker, evidence[c]).w
        /\ evidence' = [evidence EXCEPT ![c] = EnterAuthenticate(worker, evidence[c]).call]
        /\ UNCHANGED <<view, currentEmail, realTime, observers, monitors, lastUrl, timers, runs, waiters, lastResponse, outcome, mail, validation>>

\* what the callback of chrome.identity.getAuthToken brings: a token, nothing
\* (lastError, or an empty token), or an exception raised inside the try
GetAuthTokenReplies == {"primary-token", "", "throws"}

\* lines 352-368 after the await of getAuthToken, up to the await inside
\* authenticateViaWebAuthFlow or to the return
AfterGetAuthToken(w, call, token) ==
    IF token = "throws"
    THEN [w |-> [w EXCEPT !.isAuthenticating = FALSE], call |-> Returned("false", "exception")]
    ELSE IF token # ""
    THEN [w |-> [w EXCEPT !.accessToken = token, !.tokenExpiry = w.now + HourTicks,
                          !.isAuthenticating = FALSE],
          call |-> Returned("true", "primary")]
    ELSE [w |-> w, call |-> [call EXCEPT !.pc = "webAuthFlow"]]

GetAuthTokenCallback ==
    \E c \in 1..MaxCalls, token \in GetAuthTokenReplies :
        /\ evidence[c].pc = "getAuthToken"
        /\ worker' = AfterGetAuthToken(worker, evidence[c], token).w
        /\ evidence' = [evidence EXCEPT ![c] = AfterGetAuthToken(worker, evidence[c], token).call]
        /\ outcome' = [NoReply EXCEPT !.token = token]
        /\ UNCHANGED <<view, currentEmail, realTime, observers, monitors, lastUrl, timers, runs, waiters, lastResponse, mail, validation>>

\* what authenticateViaWebAuthFlow obtains: a response URL whose fragment
\* holds an access_token and perhaps an expires_in (in ticks), or nothing (no
\* client id, lastError, empty URL, no access_token)
WebAuthFlowReplies ==
    {[token |-> "web-token", stated |-> FALSE, expiresIn |-> 0],
     [token |-> "web-token", stated |-> TRUE, expiresIn |-> 1],
     [token |-> "web-token", stated |-> TRUE, expiresIn |-> HourTicks + 1],
     [token |-> "", stated |-> FALSE, expiresIn |-> 0]}

\* parseInt(params.get('expires_in') || '3600', 10)
ExpiresIn(reply) == IF reply.stated THEN reply.expiresIn ELSE HourTicks

\* authenticateViaWebAuthFlow lines 405-424 and authenticate lines 359-368
AfterWebAuthFlow(w, call, reply) ==
    IF reply.token # ""
    THEN [w |-> [w EXCEPT !.accessToken = reply.token,
                          !.tokenExpiry = w.now + ExpiresIn(reply),
                          !.isAuthenticating = FALSE],
          call |-> Returned("true", "web")]
    ELSE [w |-> [w EXCEPT !.isAuthenticating = FALSE], call |-> Returned("false", "refused")]

WebAuthFlowCallback ==
    \E c \in 1..MaxCalls, reply \in WebAuthFlowReplies :
        /\ evidence[c].pc = "webAuthFlow"
        /\ worker' = AfterWebAuthFlow(worker, evidence[c], reply).w
        /\ evidence' = [evidence EXCEPT ![c] = AfterWebAuthFlow(worker, evidence[c], reply).call]
        /\ outcome' = reply
        /\ UNCHANGED <<view, currentEmail, realTime, observers, monitors, lastUrl, timers, runs, waiters, lastResponse, mail, validation>>

\* the caller has taken the result (sendResponse of GMAIL_API_AUTH, the test
\* of getGmailHeaders); the slot serves a later call
CallerResumes ==
    \E c \in 1..MaxCalls :
        /\ evidence[c].pc = "returned"
        /\ evidence' = [evidence EXCEPT ![c] = NoCall]
        /\ UNCHANGED <<view, currentEmail, realTime, observers, monitors, lastUrl, timers, runs, waiters, lastResponse, outcome, mail, validation, worker>>

\* Date.now() advances
AuthClockTick ==
    /\ worker.now < MaxAuthClock
    /\ worker' = [worker EXCEPT !.now = @ + 1]
    /\ UNCHANGED <<view, currentEmail, realTime, observers, monitors, lastUrl, timers, runs, waiters, lastResponse, evidence, outcome, mail, validation>>

NextAuth ==
    \/ Authenticate
    \/ GetAuthTokenCallback
    \/ WebAuthFlowCallback
    \/ CallerResumes
    \/ AuthClockTick

SpecAuth == InitAuth /\ [][NextAuth]_vars

(***************************************************************************)
(* Claims                                                                  *)
(***************************************************************************)
\* the handlers that the specification calls analysis triggers
AnalysisTrigger ==
    \/ PeriodicCheck
    \/ UrlObserverFire
    \/ ContentObserverFire
    \/ AnalyzeTimerFire
    \/ ExtractTimerFire
    \/ GetCurrentEmail
    \/ WaiterPoll
    \/ AnalyzeEmail
    \/ ForceAnalysis

\* C1: an analysis trigger handled while the inbox (a list, no message open) is
\* shown leaves currentEmail null, starts no extraction and answers with no
\* analysis
C1_InboxSuspendsAnalysis ==
    [][(IsInboxView(view) /\ AnalysisTrigger)
        => (/\ currentEmail' = NULL
            /\ runs' = runs
            /\ lastResponse'.sent # "email")]_vars

\* C2: the reply of the provider API commits an analysis only for the message
\* that is open when it arrives; a run overtaken by navigation is discarded
C2_StaleRunDiscarded ==
    [][(ApiReplyArrives /\ currentEmail' # currentEmail)
        => currentEmail'.msg = view.msg]_vars

\* C3: no two extractions of the same message are in flight together
C3_OneRunPerMessage ==
    \A m \in 1..NMsg :
        CopiesIn([path |-> "dom", msg |-> m], runs)
        + CopiesIn([path |-> "apiOnly", msg |-> m], runs) <= 1

\* C4: resolving the same evidence again gives the same outcome: statuses,
\* details, flags, score and risk level
C4_SameEvidenceSameAnalysis ==
    [][outcome # NoOutcome => outcome' = outcome]_vars

Statuses(email) == <<email.spf.status, email.dkim.status, email.dmarc.status>>

Mechanisms == {"spf", "dkim", "dmarc"}

\* some check of the source is other than unknown
Concrete(results) == \E k \in Mechanisms : RawStatus(results[k]) # "unknown"

ApiConcrete(e) == e.api.ok /\ Concrete(e.api.authentication)

\* what the page alone gives: the checks that getGmailHeadersFromDOM selects
\* when the provider API fails
PageChecks(e) == GetGmailHeadersFromDOM(ApiFailure, e.doc, FALSE)

PageConcrete(e) == ~PageChecks(e).thrown /\ Concrete(PageChecks(e).authResults)

\* C6: the sources are tried in the order API, page, and the first one with a
\* check other than unknown is the one whose statuses are committed; a source
\* whose checks are all unknown is passed over
C6_FirstConcreteSourceWins ==
    (evidence # NULL /\ evidence.path = "dom" /\ outcome.kind = "commit")
    => Statuses(outcome.email) =
          IF ApiConcrete(evidence)
          THEN [i \in 1..3 |-> ContentNormalizeAuthStatus(
                    RawStatus(evidence.api.authentication[<<"spf", "dkim", "dmarc">>[i]]))]
          ELSE IF PageConcrete(evidence)
          THEN [i \in 1..3 |-> ContentNormalizeAuthStatus(
                    RawStatus(PageChecks(evidence).authResults[<<"spf", "dkim", "dmarc">>[i]]))]
          ELSE Statuses(outcome.email)

\* the status that the page states for a mechanism: the first element of the
\* Gmail data that names it
PageStated(doc, k) == GmailDataInfo(doc)[k]

\* C7: a status other than unknown that the page states for a mechanism
\* reaches the committed analysis, whatever spam, danger or warning context
\* surrounds it
C7_ConcreteStatusKept ==
    (evidence # NULL /\ evidence.path = "dom" /\ ~evidence.api.ok /\ outcome.kind = "commit")
    => \A k \in Mechanisms :
          PageStated(evidence.doc, k) \notin {"", "unknown"}
          => outcome.email[k].status = ContentNormalizeAuthStatus(PageStated(evidence.doc, k))

\* no element of the page names a mechanism
NoMechanismNamed(doc) ==
    \A i \in 1..Len(doc) : \A k \in Mechanisms : ~Includes(ToLowerCase(doc[i].text), k)

\* C8: in spam or danger context, when neither the API nor the page gives a
\* status for any mechanism, all three committed checks are fail and the score
\* is 0
C8_SpamWithoutEvidenceFails ==
    (/\ evidence # NULL /\ evidence.path = "dom" /\ outcome.kind = "commit"
     /\ evidence.spam /\ ~ApiConcrete(evidence) /\ NoMechanismNamed(evidence.doc))
    => (Statuses(outcome.email) = <<"fail", "fail", "fail">>
        /\ outcome.email.securityScore = 0)

\* the analysis of a message with these header fields on the API path
ApiAnalysis(e) ==
    ProcessEmailData("gmail", 0, ApiReplyFor(e.headers).sender, NoSubject, "api", TRUE,
                     ApiReplyFor(e.headers).authentication, e.spam, NoDraws)

\* C9: pasted header text is analysed to the statuses that the API path gives
\* for a message with the same header fields
C9_ManualMatchesApi ==
    (evidence # NULL /\ evidence.path = "manual" /\ outcome.kind = "commit")
    => Statuses(outcome.email) = Statuses(ApiAnalysis(evidence))

\* C10: a run on an open message whose sender or subject was extracted ends
\* with a committed analysis, whatever the API and the page give
C10_RunCommits ==
    (/\ evidence # NULL /\ evidence.path = "dom" /\ outcome # NoOutcome
     /\ (evidence.ex.email # UnknownSender \/ evidence.ex.subject # NoSubject))
    => outcome.kind = "commit"

\* C5: every status that a component stores in a check is one of the allowed
\* statuses: no raw token of a header is stored
C5_StatusInEnum ==
    validation # NULL
    => \A k \in Mechanisms : validation[k].status \in AuthStatus

\* a GET_CURRENT_EMAIL request whose reply is still owed
Waiting == waiters.open + waiters.due > 0

Answered == lastResponse.sent \in {"email", "null"}

\* C11: every GET_CURRENT_EMAIL request is answered, once: with the stored
\* analysis at once when it has a sender, else with an analysis that has a
\* sender as soon as a poll of the wait finds one, or with null, and that only
\* after the wait has elapsed; a request whose reply is owed gets it
C11_RequestAnswered ==
    /\ [][/\ (GetCurrentEmail /\ HasSender(currentEmail)) => lastResponse'.sent = "email"
          /\ (GetCurrentEmail /\ ~HasSender(currentEmail))
                => (lastResponse'.sent = "none" /\ waiters'.open = waiters.open + 1)
          /\ lastResponse'.sent = "email"
                => (HasSender(currentEmail) /\ lastResponse'.msg = currentEmail.msg)
          /\ lastResponse'.sent = "null" => (waiters.due > 0 /\ ~HasSender(currentEmail))
          /\ (waiters'.open + waiters'.due < waiters.open + waiters.due)
                => (/\ waiters'.open + waiters'.due = waiters.open + waiters.due - 1
                    /\ lastResponse'.sent \in {"email", "null"})]_vars
    /\ (Waiting ~> Answered)

\* a request that waited out the 2000 ms and was answered with null
C11_AnsweredNullAfterWait == lastResponse.sent = "null"

\* C12: a raw status token that contains "fail", in any letter case and with
\* any text around it, is normalized to fail by every normalizer
C12_FailTokenGivesFail ==
    Includes(ToLowerCase(evidence), "fail")
        => (outcome.api \in {"", "fail"} /\ outcome.content \in {"", "fail"})

\* the mapping the specification states: substrings, in this order, first wins
StatedOrder(t) ==
    IF Includes(t, "pass") THEN "pass"
    ELSE IF \E w \in {"fail", "failed", "failure", "error"} : Includes(t, w) THEN "fail"
    ELSE IF \E w \in {"none", "absent", "missing"} : Includes(t, w) THEN "none"
    ELSE IF Includes(t, "neutral") THEN "neutral"
    ELSE IF Includes(t, "softfail") THEN "softfail"
    ELSE IF Includes(t, "temperror") THEN "temperror"
    ELSE IF Includes(t, "permerror") THEN "permerror"
    ELSE IF \E w \in {"present", "found"} : Includes(t, w) THEN "present"
    ELSE "unknown"

StatedNormalize(token) == StatedOrder(ToLowerCase(token))

\* C13: every normalizer maps a token by the stated substring order (pass;
\* fail, failed, failure, error; none, absent, missing; neutral; softfail;
\* temperror; permerror; present, found; else unknown), first match wins
C13_SameStatedMapping ==
    /\ outcome.api \in {"", StatedNormalize(evidence)}
    /\ outcome.content \in {"", StatedNormalize(evidence)}

\* the token that the Authentication-Results header of the validated mail
\* carries for mechanism k, "" when it carries none
MailToken(k) ==
    MatchAfterI(ParseEmailHeaders(mail)["authentication-results"], k \o "=", TokenStop)

\* the validation ran its three validators (a sender domain was found)
Validated == validation # NULL /\ validation.domain # ""

\* any of the normalizations of a token
NormalizedValues(token) ==
    {StatedNormalize(token), ApiNormalizeAuthStatus(token), ContentNormalizeAuthStatus(token)}

\* C14: when the Authentication-Results header carries spf=, dkim= or dmarc=,
\* the validator of that mechanism returns the normalized token, whatever the
\* DNS answers are and whether or not a DKIM-Signature header is present
C14_ExplicitTokenWins ==
    Validated
    => \A k \in Mechanisms :
          MailToken(k) # "" => validation[k].status \in NormalizedValues(MailToken(k))

\* a v=spf1 record among the TXT answers names include:, a: or mx:
SpfMechanismPresent(records) ==
    \E i \in 1..Len(records) :
        /\ StartsWith(records[i], "v=spf1")
        /\ \E m \in {"include:", "a:", "mx:"} : Includes(records[i], m)

\* a DKIM-Signature header, or its provider-prefixed variant, is in the mail
SignaturePresent(headers) ==
    headers["dkim-signature"] # "" \/ headers["x-google-dkim-signature"] # ""

\* C15: with no token for a mechanism in Authentication-Results, validateSPF
\* returns pass when a v=spf1 record names include:, a: or mx: and none
\* otherwise; validateDKIM returns pass when a signature header is present and
\* none otherwise; validateDMARC returns pass, its details carrying the p=
\* policy, when a v=DMARC1 record exists and none otherwise
C15_PresenceDecidesWithoutToken ==
    Validated
    => /\ MailToken("spf") = ""
            => validation.spf.status =
                  (IF SpfMechanismPresent(evidence.spf) THEN "pass" ELSE "none")
       /\ MailToken("dkim") = ""
            => validation.dkim.status =
                  (IF SignaturePresent(ParseEmailHeaders(mail)) THEN "pass" ELSE "none")
       /\ MailToken("dmarc") = ""
            => IF FindRecord(evidence.dmarc, "v=DMARC1") = ""
               THEN validation.dmarc.status = "none"
               ELSE /\ validation.dmarc.status = "pass"
                    /\ Includes(validation.dmarc.details,
                                MatchAfter(FindRecord(evidence.dmarc, "v=DMARC1"), "p=", {";"}))

\* the statuses, and the points of each, that the specification names
StatedStatuses == {"pass", "softfail", "neutral", "present", "fail", "none"}

StatedTenths(status, weight) ==
    CASE status = "pass" -> weight * 10
      [] status \in {"softfail", "neutral"} -> weight * 5
      [] status = "present" -> weight * 2
      [] status \in {"fail", "none"} -> 0

\* the authentication-only score as stated, for the scored input e
StatedScore(e) ==
    LET points == StatedTenths(e.spf, 30) + StatedTenths(e.dkim, 35)
                  + StatedTenths(e.dmarc, 35)
        bonus == IF e.hasAuthResults THEN 100 ELSE 0
        poor == Cardinality({k \in Mechanisms : e[k] \in {"fail", "unknown"}}) >= 2
        provider == IF ~e.isKnownProvider /\ poor THEN 200 ELSE 0
        spam == IF e.isInSpamFolder THEN 300 ELSE 0
        rounded == (points + bonus - provider - spam + 5) \div 10
    IN  IF rounded < 0 THEN 0 ELSE IF rounded > 100 THEN 100 ELSE rounded

\* C16: for statuses among pass, softfail, neutral, present, fail, none and any
\* flags, securityScore is the rounded sum of the mechanism points (30/35/35;
\* pass full, softfail or neutral half, present a fifth, fail or none nothing),
\* +10 with concrete evidence, -20 for an unrecognized provider with two checks
\* fail or unknown, -30 in spam context, clamped to 0..100
C16_AuthOnlyScore ==
    (/\ outcome.kind \in {"analysis", "displayed"}
     /\ \A k \in Mechanisms : evidence[k] \in StatedStatuses)
    => outcome.securityScore = StatedScore(evidence)

\* a scored analysis whose sum needs the rounding: full, fifth and half weight,
\* the bonus and the spam penalty give 30 + 7 + 17.5 + 10 - 30 = 34.5, scored 35
C16_HalfPointRoundedUp ==
    /\ outcome.kind = "analysis"
    /\ evidence.spf = "pass" /\ evidence.dkim = "present" /\ evidence.dmarc = "softfail"
    /\ evidence.hasAuthResults /\ evidence.isInSpamFolder
    /\ outcome.securityScore = 35

\* the composite score as stated; l is the lower-cased label
StatedAuthPoints(status) ==
    IF status = "pass" THEN 20
    ELSE IF status \in {"softfail", "neutral", "present"} THEN 10
    ELSE 0

StatedContentPoints(l) ==
    CASE l = "normal" -> 40
      [] l = "suspicious" -> 20
      [] l = "harassment" -> 10
      [] l = "fraudulent" -> 0
      [] l = "" -> 20

StatedLabels == {"normal", "suspicious", "harassment", "fraudulent", ""}

\* C17: the displayed composite score is authScore + contentScore within
\* 0..100: 20 a mechanism for pass, 10 for softfail, neutral or present, else
\* 0; 40 for Normal, 20 for Suspicious, 10 for a harassment label, 0 for
\* Fraudulent, 20 without classification, the label read in any letter case
C17_CompositeScore ==
    (outcome.kind = "displayed" /\ ToLowerCase(evidence.aiClassification) \in StatedLabels)
    => /\ outcome.authScore = StatedAuthPoints(evidence.spf) + StatedAuthPoints(evidence.dkim)
                               + StatedAuthPoints(evidence.dmarc)
       /\ outcome.contentScore = StatedContentPoints(ToLowerCase(evidence.aiClassification))
       /\ outcome.score = outcome.authScore + outcome.contentScore
       /\ outcome.score \in 0..100

\* three passes displayed with the label Normal: 60 + 40
C17_ThreePassesNormal ==
    /\ outcome.kind = "displayed"
    /\ \A k \in Mechanisms : evidence[k] = "pass"
    /\ evidence.aiClassification = "Normal"
    /\ outcome.score = 100

\* the tier of a score as stated
StatedTier(score) ==
    IF score >= 80 THEN "low" ELSE IF score >= 50 THEN "medium" ELSE "high"

\* C18: in both scoring modes riskLevel is the tier of the score of that mode
\* (low from 80, medium from 50, else high): the riskLevel of an analysis is
\* the tier of its securityScore and, once the analysis is displayed with the
\* composite score, the tier of that composite score
C18_RiskIsTierOfModeScore ==
    /\ outcome.kind \in {"analysis", "displayed"}
          => outcome.riskLevel = StatedTier(outcome.securityScore)
    /\ outcome.kind = "displayed" => outcome.riskLevel = StatedTier(outcome.score)

Lookups == {"spf", "dmarc"}

\* a step in which validateEmailHeaders calls performDNSLookup for its two keys
LookupsCalled ==
    (mail = NULL \/ validation # NULL) /\ mail' # NULL /\ validation' = NULL

\* a step in which the pending lookup m returns
LookupReturns(m) == evidence[m].state = "pending" /\ evidence'[m].state # "pending"

\* the stated condition of a cache hit at the time of the call
StatedFresh(key) ==
    /\ EntryOf(worker, key) # NULL
    /\ worker.now - EntryOf(worker, key).timestamp < TimeoutTicks

\* a call returns the cached records, without a request, exactly when the
\* entry of its key exists and is younger than cacheTimeout
ServedFromCacheWhenFresh(m) ==
    LookupsCalled
    => /\ evidence'[m].state = "cached" <=> StatedFresh(evidence'[m].key)
       /\ evidence'[m].state # "cached" => evidence'[m].state = "pending"
       /\ evidence'[m].state = "cached"
            => evidence'[m].data = EntryOf(worker, evidence'[m].key).data

\* C19: performDNSLookup answers from the cache, without a request, exactly
\* when the entry of (domain, type) exists and now - fetchedAt < cacheTimeout;
\* in every other case the lookup it performs ends with the entry of the key
\* replaced by the new record list and the new timestamp
C19_EveryLookupReplacesEntry ==
    [][\A m \in Lookups :
          /\ ServedFromCacheWhenFresh(m)
          /\ LookupReturns(m)
                => EntryOf(worker', evidence[m].key)
                     = [data |-> evidence'[m].data, timestamp |-> worker.now]]_vars

\* C19, amended: as above for a lookup that succeeds; a lookup that fails
\* returns the empty list and leaves the cache as it was
C19_SuccessfulLookupReplacesEntry ==
    [][\A m \in Lookups :
          /\ ServedFromCacheWhenFresh(m)
          /\ LookupReturns(m)
                => IF evidence'[m].state = "fetched"
                   THEN EntryOf(worker', evidence[m].key)
                          = [data |-> evidence'[m].data, timestamp |-> worker.now]
                   ELSE worker' = worker /\ evidence'[m].data = <<>>]_vars

\* a lookup that found an expired entry and replaced it by other records
C19_ExpiredEntryReplaced ==
    \E m \in Lookups :
        /\ evidence[m].state = "fetched"
        /\ evidence[m].seen # NULL
        /\ evidence[m].seen.data # evidence[m].data
        /\ EntryOf(worker, evidence[m].key).data = evidence[m].data

\* what the validators say of a mechanism whose record the domain does not publish
NoRecordFound ==
    [spf |-> [status |-> "none", details |-> "No SPF record found"],
     dmarc |-> [status |-> "none", details |-> "No DMARC record found"]]

\* C20: a DoH request that fails (network error, status other than 2xx, body
\* that cannot be parsed) makes performDNSLookup return the empty list and
\* raise nothing, and validateEmailHeaders goes on as if the domain published
\* no record of that kind
C20_FailedLookupIsNoRecord ==
    \A m \in Lookups :
        evidence[m].state = "failed"
        => /\ evidence[m].ends = "returns"
           /\ evidence[m].data = <<>>
           /\ validation # NULL
                => /\ "error" \notin DOMAIN validation
                   /\ validation[m] = NoRecordFound[m]

\* a validation that ended after its SPF lookup had failed, for a mail whose
\* Authentication-Results header says spf=pass
C20_ValidatedAfterFailedLookup ==
    /\ evidence.spf.state = "failed"
    /\ validation # NULL
    /\ Includes(mail.text, "spf=pass")
    /\ validation.spf.status = "none"

\* the value the specification gives a field: its lines, trimmed, joined by
\* single spaces
StatedUnfolded(value) ==
    LET lines == Lines(value)
        joined[i \in 1..Len(lines)] ==
            IF i = 1 THEN Trim(lines[1])
            ELSE LET before == joined[i - 1] IN before \o " " \o Trim(lines[i])
    IN  joined[Len(lines)]

\* the fields of the message whose name occurs once
SingleFields ==
    {i \in 1..Len(evidence) : \A j \in 1..Len(evidence) :
        evidence[j].name = evidence[i].name => j = i}

BackgroundUnfolds ==
    outcome.background.done =>
        /\ \A i \in SingleFields :
              outcome.background.headers[ToLowerCase(evidence[i].name)]
                  = StatedUnfolded(evidence[i].value)
        /\ \A n \in HeaderNames :
              (\A i \in 1..Len(evidence) : ToLowerCase(evidence[i].name) # n)
                  => outcome.background.headers[n] = ""

PopupUnfolds ==
    outcome.popup.done =>
        \A i \in SingleFields :
            /\ evidence[i].name = "From"
                  => outcome.popup.analysis.sender = StatedUnfolded(evidence[i].value)
            /\ evidence[i].name = "Return-Path"
                  => outcome.popup.analysis.returnPath = StatedUnfolded(evidence[i].value)

\* C21: in both header parsers every line that begins with whitespace is
\* appended, after a single space, to the value of the field before it and
\* starts no field of its own; names are lower-cased and values keep their case.
C21_FoldedLinesJoinValue == BackgroundUnfolds /\ PopupUnfolds

\* the result blocks of the message, in the order of the header text
BlocksAt ==
    {i \in 1..Len(evidence) :
        ToLowerCase(evidence[i].name)
            \in {"authentication-results", "arc-authentication-results"}}

\* the verdict the block that appears first gives a check
FirstBlockVerdict(name) ==
    MatchWord(ToLowerCase(evidence[Least(BlocksAt)].value), name \o "=")

PublishedSpf == <<"v=spf1 include:_spf.corp.example ~all">>
PublishedDmarc == <<"v=DMARC1; p=reject">>

PopupReadsFirstBlock ==
    outcome.popup.done =>
        /\ outcome.popup.analysis.spf = FirstBlockVerdict("spf")
        /\ outcome.popup.analysis.dkim = FirstBlockVerdict("dkim")
        /\ outcome.popup.analysis.dmarc = FirstBlockVerdict("dmarc")

ApiReadsFirstBlock ==
    outcome.api.done =>
        /\ outcome.api.authenticationResults.spf.status = FirstBlockVerdict("spf")
        /\ outcome.api.authenticationResults.dkim.status = FirstBlockVerdict("dkim")
        /\ outcome.api.authenticationResults.dmarc.status = FirstBlockVerdict("dmarc")

BackgroundReadsFirstBlock ==
    outcome.background.done =>
        /\ ValidateSPF(outcome.background.headers, PublishedSpf).status
              = FirstBlockVerdict("spf")
        /\ ValidateDMARC(outcome.background.headers, PublishedDmarc).status
              = FirstBlockVerdict("dmarc")

\* C22: when a message carries more than one result block, the verdicts of the
\* three checks are those of the block that appears first in the header text.
C22_FirstBlockDecides ==
    Cardinality(BlocksAt) > 1 =>
        PopupReadsFirstBlock /\ ApiReadsFirstBlock /\ BackgroundReadsFirstBlock

\* the alignment relation the specification states: equal, or either domain
\* a subdomain of the other
StatedAligned(a, b) ==
    a # "" /\ b # "" /\ (a = b \/ EndsWith(a, "." \o b) \/ EndsWith(b, "." \o a))

\* C23: the alignment used for the DMARC explanation is the symmetric relaxed
\* relation: two non-empty domains are aligned exactly when they are equal or
\* one is a subdomain of the other, whichever of the two it is.
C23_AlignmentSymmetric ==
    outcome.done =>
        /\ outcome.spfAlignedPass
              = (evidence.spf = "pass" /\ StatedAligned(evidence.spfDomain, evidence.fromDomain))
        /\ outcome.dkimAlignedPass
              = (evidence.dkim = "pass" /\ StatedAligned(evidence.dkimDomain, evidence.fromDomain))
        /\ RelaxedAligned(evidence.spfDomain, evidence.fromDomain)
              = RelaxedAligned(evidence.fromDomain, evidence.spfDomain)

\* the call c of authenticate() makes the step from pc before to pc after
CallStep(c, before, after) == evidence[c].pc = before /\ evidence'[c].pc = after

\* a cached token is valid: now < tokenExpiry
CachedTokenValid == worker.accessToken # "" /\ worker.now < worker.tokenExpiry

\* the call c returns true in this step with the token of the reply cached
\* until ticks after now
GrantCached(c, ticks) ==
    /\ evidence'[c].result = "true"
    /\ worker'.accessToken = outcome'.token
    /\ worker'.tokenExpiry = worker.now + ticks

\* a call starts a grant exactly when no valid token is cached
StartsGrantUnlessCached ==
    \A c \in 1..MaxCalls :
        evidence[c].pc = "idle" /\ evidence'[c].pc # "idle" =>
            (evidence'[c].pc = "getAuthToken") = ~CachedTokenValid

InGrantFlow == {c \in 1..MaxCalls : evidence[c].pc \in {"getAuthToken", "webAuthFlow"}}

FlagIffGrantInProgress ==
    /\ Cardinality(InGrantFlow) <= 1
    /\ worker.isAuthenticating = (InGrantFlow # {})

\* C29: under any interleaving of authenticate() calls, isAuthenticating is
\* true exactly while one call awaits a token grant: at most one grant flow is
\* in progress, a call made meanwhile returns false and starts no grant, and
\* the flag is false again after every completion of the flow.
C29_OneGrantFlowAtATime ==
    [][/\ FlagIffGrantInProgress'
       /\ \A c \in 1..MaxCalls :
            /\ evidence[c].pc = "idle" /\ evidence'[c].pc # "idle" /\ InGrantFlow # {}
                  => evidence'[c] = Returned("false", "busy") /\ worker' = worker
            /\ c \in InGrantFlow /\ evidence'[c].pc = "returned"
                  => ~worker'.isAuthenticating]_vars

\* a call was turned away while another awaits its grant
C29_TurnedAwayDuringGrant ==
    \E c, d \in 1..MaxCalls :
        /\ evidence[c].pc = "webAuthFlow"
        /\ evidence[d] = Returned("false", "busy")
        /\ worker.isAuthenticating

\* C25: while settings.realTimeMonitoring is false no automatic analysis runs:
\* neither observer callback and no tick of the periodic timer; analyses start
\* from explicit requests only.
C25_NoAutomaticAnalysisWhenOff ==
    [][~realTime => ~(UrlObserverFire \/ ContentObserverFire \/ PeriodicCheck)]_vars

\* a run ends in this step and its analysis is committed
RunCommitted ==
    /\ BagCardinality(runs') < BagCardinality(runs)
    /\ currentEmail' # currentEmail

\* currentEmail is, after the step, the record some run of the step ends in
ReplacedByRun ==
    \E run \in BagToSet(runs) :
    \E end \in FinishTable[run.path][run.msg][IsInSpamFolder(view)] :
        end[3].kind = "commit" /\ currentEmail' = end[3].email

\* C26: after any sequence of init, startMonitoring, stopMonitoring and
\* SETTINGS_UPDATED at most one set of monitors (URL observer, content
\* observer, periodic timer) is active, and a committed run replaces
\* currentEmail entirely by its analysis.
C26_NoMonitorAccumulates ==
    [][monitors' <= 1 /\ (RunCommitted => ReplacedByRun)]_vars

\* the strength the specification gives a status:
\* pass > present > softfail = neutral > none = unknown > fail
StatedStrength(s) ==
    CASE s = "pass" -> 5
      [] s = "present" -> 4
      [] s \in {"softfail", "neutral"} -> 3
      [] s \in {"none", "unknown"} -> 2
      [] OTHER -> 1

\* the input with the status of one check replaced
WithStatus(e, check, s) == [e EXCEPT ![check] = s]

AuthOnlyScoreOf(e) ==
    CalculateSecurityScore(e.spf, e.dkim, e.dmarc, e.hasAuthResults, e.isKnownProvider,
                           e.isInSpamFolder)

CompositeAuthScoreOf(e) == ComputeAuthScore(e.spf, e.dkim, e.dmarc)

\* the auth-only score follows the order of the statuses
AuthOnlyFollowsStrength ==
    outcome.kind = "analysis" =>
        /\ \A check \in {"spf", "dkim", "dmarc"}, s \in ScoreStatuses :
              /\ StatedStrength(s) >= StatedStrength(evidence[check])
                    => AuthOnlyScoreOf(WithStatus(evidence, check, s)) >= outcome.securityScore
              /\ StatedStrength(s) = StatedStrength(evidence[check])
                    => AuthOnlyScoreOf(WithStatus(evidence, check, s)) = outcome.securityScore
        /\ (evidence.spf = "fail" /\ evidence.dkim = "fail" /\ evidence.dmarc = "fail"
                /\ ~evidence.hasAuthResults)
              => outcome.securityScore = 0

\* the authentication part of the composite score follows it too
CompositeFollowsStrength ==
    outcome.kind = "displayed" =>
        /\ \A check \in {"spf", "dkim", "dmarc"}, s \in ScoreStatuses :
              /\ StatedStrength(s) >= StatedStrength(evidence[check])
                    => CompositeAuthScoreOf(WithStatus(evidence, check, s)) >= outcome.authScore
              /\ StatedStrength(s) = StatedStrength(evidence[check])
                    => CompositeAuthScoreOf(WithStatus(evidence, check, s)) = outcome.authScore
        /\ (evidence.spf = "fail" /\ evidence.dkim = "fail" /\ evidence.dmarc = "fail")
              => outcome.authScore = 0

\* C27: in both scoring modes the score follows the order pass > present >
\* softfail = neutral > none = unknown > fail: with the other two checks and
\* the flags fixed, a stronger status never lowers the score, statuses of equal
\* strength give the same score, and fail contributes no points.
C27_ScoreFollowsStrength == AuthOnlyFollowsStrength /\ CompositeFollowsStrength

\* no check of the committed analysis rests on concrete evidence: the three
\* are unknown, or the run had neither an API status nor a mechanism named on
\* the page and its statuses are placeholders
NoConcreteCheck ==
    \/ Statuses(outcome.email) = <<"unknown", "unknown", "unknown">>
    \/ (evidence.path = "dom" /\ ~ApiConcrete(evidence) /\ NoMechanismNamed(evidence.doc))

\* C28: hasAuthResults is true in a produced analysis, and the bonus added,
\* only when at least one of the three checks was determined from concrete
\* evidence; an analysis whose checks are all unknown or all synthetic has
\* hasAuthResults = false and receives no bonus.
C28_BonusOnlyWithEvidence ==
    (evidence # NULL /\ outcome.kind = "commit" /\ NoConcreteCheck)
    => /\ ~outcome.email.hasAuthResults
       /\ outcome.email.securityScore
             = CalculateSecurityScore(outcome.email.spf.status, outcome.email.dkim.status,
                                      outcome.email.dmarc.status, FALSE,
                                      outcome.email.isKnownProvider,
                                      outcome.email.isInSpamFolder)

\* the domain of the From address the headers of the event carry: in the From
\* line of raw text, in the from entry of a field map; "" when there is none
SenderDomainOf(m) ==
    IF m.isString
    THEN LET lines == Lines(m.text)
             at == {i \in 1..Len(lines) : StartsWith(lines[i], "From:")}
         IN  IF at = {} THEN ""
             ELSE ToLowerCase(MatchAfter(lines[Least(at)], "@", {">", " "}))
    ELSE ToLowerCase(MatchAfter(m.from, "@", {">", " "}))

\* C30: for every EMAIL_ANALYZED event whose headers carry a From address
\* with a domain, as raw text or as a field map, the validation is that of the
\* sender domain; the 'No domain found' verdict is not given.
C30_SenderDomainValidated ==
    (mail # NULL /\ validation # NULL /\ SenderDomainOf(mail) # "")
    => /\ validation.domain = SenderDomainOf(mail)
       /\ validation.spf.details # "No domain found"

====
